---------------------------- MODULE Spec2Model ----------------------------
(***************************************************************************)
(* Crawl orchestration and result store of the AILinux backend             *)
(* (app/services/crawler/manager.py).                                      *)
(*                                                                         *)
(* StoreSpec exercises CrawlerStore through its own interface (add and     *)
(* update with arbitrary results).  Spec runs the crawler: create_job, the *)
(* worker loop _run_worker and the traversal of _process_job, which feeds  *)
(* the same store.  JobSpec runs the worker on one queued job created from *)
(* any request.                                                            *)
(***************************************************************************)
EXTENDS Integers, Sequences, FiniteSets, TLC

VARIABLES
    (* CrawlerStore *)
    max_memory_bytes,   \* CrawlerStore.max_memory_bytes
    records,            \* CrawlerStore._records: OrderedDict, a sequence of [key, rec]
    sizes,              \* CrawlerStore._sizes: dict key -> accounted size
    memory_usage,       \* CrawlerStore._memory_usage
    (* observation of the store calls (history, not program state) *)
    next_id,            \* number of uuid4 ids handed out so far
    n_calls,            \* number of store calls made so far
    inserted_at,        \* key -> number of the add call that created the key
    last_call,          \* the last store call: [op, arg, path, evicted]
    prev_call,          \* the store call before it
    (* CrawlerManager *)
    jobs,               \* CrawlerManager._jobs: job id -> CrawlJob
    job_queue,          \* CrawlerManager._job_queue
    robots_cache,       \* CrawlerManager._robots_cache: origin -> parser or None
    train_buffer,       \* CrawlerManager._train_buffer
    worker,             \* the task running _run_worker: [state, job]
    queue,              \* _process_job: the deque of (url, depth, parent)
    visited,            \* _process_job: the visited set
    (* observation of the crawl (history, not program state) *)
    fetch_log,          \* job id -> the page fetch attempts made, in order
    built,              \* result id -> [job_id, url, score] of every result built
    fault,              \* job id -> the exception that escaped its processing
    (* publication interface *)
    ready_call,         \* the last ready_for_publication call and what it returned
    (* shutdown and training shards *)
    stop_event,         \* CrawlerManager._stop_event is set
    flusher,            \* the task running flush_hourly
    app,                \* position of the application in its lifecycle (main.py)
    shards,             \* the shard files: name -> the result ids written, in order
    train_index,        \* CrawlerManager._train_index["shards"]
    flush_log,          \* history: the flushes attempted, [by, io, buffered]
    (* politeness gate driven directly *)
    gate_calls,         \* history: the _can_fetch calls, [url, requested, answer]
    (* UserCrawler *)
    user,               \* the UserCrawler: running flag, stats, crawl_url calls
    (* RobustHTTPClient *)
    http,               \* one get/post call: method, attempts made, how it ended
    (* stream_chat *)
    chat,               \* one stream_chat call: position, chunks emitted, job polled
    (* the training directory shared by the managers of the process *)
    spool               \* index.json, the archive, the compaction passes, and the
                        \* training buffer and index of the manager of UserCrawler

storeVars == <<max_memory_bytes, records, sizes, memory_usage>>
histVars == <<next_id, n_calls, inserted_at, last_call, prev_call>>
crawlVars == <<jobs, job_queue, robots_cache, train_buffer, worker, queue, visited>>
crawlHistVars == <<fetch_log, built, fault>>
flushVars == <<stop_event, flusher, app, shards, train_index, flush_log>>
auxVars == <<ready_call, flushVars, gate_calls, user, http, chat, spool>>
vars == <<storeVars, histVars, crawlVars, crawlHistVars, auxVars>>

---------------------------------------------------------------------------
(* Bounds and input domains of the model *)

\* number of calls (add, update) the store interface receives in StoreSpec
MaxCalls == 3

\* configured crawler_max_memory_bytes: 0 (unbounded) or 1000 bytes
MemoryLimits == {0, 1000}
\* content hashes; 0 stands for None / the empty string
Hashes == {0, 1, 2}
\* relevance scores as fractions matched / keywords
Scores == {[num |-> 1, den |-> 2], [num |-> 1, den |-> 1]}
\* updated_at instants
Instants == {1, 2}
\* serialized length of a result without the digits of its size_bytes field
Bodies == {399, 799}

---------------------------------------------------------------------------
(* CrawlResult and its serialization *)

NoResult == [id |-> 0]

RECURSIVE Digits(_)
\* number of characters json.dumps writes for a non-negative integer
Digits(n) == IF n < 10 THEN 1 ELSE 1 + Digits(n \div 10)

\* len(json.dumps(result.to_dict(include_content=True)).encode("utf-8")):
\* the other fields take r.body bytes, the size_bytes field its digits
SerializedSize(r) == r.body + Digits(r.size_bytes)

\* a.score > b.score on the fractions
ScoreGT(a, b) == a.num * b.den > b.num * a.den

\* a fresh CrawlResult as its constructor leaves it (size_bytes = 0)
NewResult(id, h, sc, at, body) ==
    [id |-> id, content_hash |-> h, score |-> sc, updated_at |-> at,
     body |-> body, size_bytes |-> 0]

---------------------------------------------------------------------------
(* dict / OrderedDict primitives *)

Keys(recs) == {recs[i].key : i \in 1..Len(recs)}

KeySeq(recs) == [i \in 1..Len(recs) |-> recs[i].key]

IndexOf(recs, key) == CHOOSE i \in 1..Len(recs) : recs[i].key = key

\* OrderedDict.__setitem__: an existing key keeps its position, a new key goes last
DictSet(recs, key, rec) ==
    IF key \in Keys(recs)
    THEN [recs EXCEPT ![IndexOf(recs, key)] = [key |-> key, rec |-> rec]]
    ELSE Append(recs, [key |-> key, rec |-> rec])

\* dict.get(key, 0)
SizeGet(sz, key) == IF key \in DOMAIN sz THEN sz[key] ELSE 0

\* dict.__setitem__
SizePut(sz, key, v) == [k \in DOMAIN sz \cup {key} |-> IF k = key THEN v ELSE sz[k]]

\* dict.pop(key, 0): the dict without the key
SizeDrop(sz, key) == [k \in DOMAIN sz \ {key} |-> sz[k]]

---------------------------------------------------------------------------
(* CrawlerStore *)

TheStore == [records |-> records, sizes |-> sizes, memory_usage |-> memory_usage]

\* EvictOne with popitem() left at its default, last=True
EvictOneNewest(s) ==
    LET record_id == s.records[Len(s.records)].key
        size == SizeGet(s.sizes, record_id)
    IN  [records |-> SubSeq(s.records, 1, Len(s.records) - 1),
         sizes |-> SizeDrop(s.sizes, record_id),
         memory_usage |-> s.memory_usage - size]

\* one turn of the eviction loop: popitem(last=False), _sizes.pop, usage -= size
EvictOne(s) ==
    LET record_id == Head(s.records).key
        size == SizeGet(s.sizes, record_id)
    IN  [records |-> Tail(s.records),
         sizes |-> SizeDrop(s.sizes, record_id),
         memory_usage |-> s.memory_usage - size]

RECURSIVE EvictLoop(_, _, _)
EvictLoop(s, required, limit) ==
    IF s.memory_usage + required > limit /\ Len(s.records) > 0
    THEN EvictLoop(EvictOne(s), required, limit)
    ELSE s

\* CrawlerStore._ensure_capacity
EnsureCapacity(s, required, limit) ==
    IF limit <= 0 THEN s ELSE EvictLoop(s, required, limit)

\* indices of the resident records with the content hash of result
SameHash(s, result) ==
    {i \in 1..Len(s.records) : s.records[i].rec.content_hash = result.content_hash}

\* add takes the dedup branch: the hash is truthy and some resident record has it
IsDuplicate(s, result) == result.content_hash # 0 /\ SameHash(s, result) # {}

\* the first resident record, in dict order, with the hash of result
FirstSameHash(s, result) ==
    s.records[CHOOSE i \in SameHash(s, result) : \A j \in SameHash(s, result) : i <= j].rec

\* IsBetter with the timestamp consulted only on equal scores
IsBetterScoreFirst(result, existing) ==
    \/ ScoreGT(result.score, existing.score)
    \/ /\ ~ScoreGT(existing.score, result.score)
       /\ result.updated_at > existing.updated_at

\* IsBetter with ties counted as better
IsBetterOrTie(result, existing) ==
    ~ScoreGT(existing.score, result.score) \/ result.updated_at >= existing.updated_at

\* the condition under which a duplicate replaces the resident record
IsBetter(result, existing) ==
    ScoreGT(result.score, existing.score) \/ result.updated_at > existing.updated_at

\* the replacement of a duplicate: the new record goes under the existing
\* record's id, its size under its own id, and the usage changes by the
\* difference to the size recorded under the existing record's id
ReplaceDuplicate(s, result, existing, size) ==
    LET sizes1 == SizePut(s.sizes, result.id, size)
    IN  [records |-> DictSet(s.records, existing.id, result),
         sizes |-> sizes1,
         memory_usage |-> s.memory_usage + (size - SizeGet(sizes1, existing.id))]

\* the insertion of a new record after making room for it
InsertNew(s, result, size, limit) ==
    LET s1 == EnsureCapacity(s, size, limit)
    IN  [records |-> DictSet(s1.records, result.id, result),
         sizes |-> SizePut(s1.sizes, result.id, size),
         memory_usage |-> s1.memory_usage + size]

\* the result as add stores it: size_bytes set to the serialized size
Sized(result) == [result EXCEPT !.size_bytes = SerializedSize(result)]

\* CrawlerStore.add
StoreAdd(s, result0, limit) ==
    LET size == SerializedSize(result0)
        result == Sized(result0)
    IN  IF IsDuplicate(s, result)
        THEN LET existing == FirstSameHash(s, result)
             IN  IF IsBetter(result, existing)
                 THEN ReplaceDuplicate(s, result, existing, size)
                 ELSE s
        ELSE InsertNew(s, result, size, limit)

\* CrawlerStore.update
StoreUpdate(s, result) ==
    IF result.id \in Keys(s.records)
    THEN LET size == SerializedSize(result)
             delta == size - SizeGet(s.sizes, result.id)
         IN  [records |-> DictSet(s.records, result.id, result),
              sizes |-> SizePut(s.sizes, result.id, size),
              memory_usage |-> s.memory_usage + delta]
    ELSE s

\* which branch of add a result takes in store s
AddPath(s, result) ==
    IF IsDuplicate(s, result)
    THEN IF IsBetter(Sized(result), FirstSameHash(s, result)) THEN "replace" ELSE "discard"
    ELSE "insert"

---------------------------------------------------------------------------
(* The store interface driven directly *)

NoCall == [op |-> "none", arg |-> NoResult, path |-> "none", evicted |-> {}]

\* the observation of an add call
Observe(s, s1, result) ==
    /\ prev_call' = last_call
    /\ last_call' = [op |-> "add", arg |-> Sized(result), path |-> AddPath(s, result),
                     evicted |-> Keys(s.records) \ Keys(s1.records)]
    /\ inserted_at' = [k \in Keys(s1.records) |->
                         IF k \in Keys(s.records) THEN inserted_at[k] ELSE next_id + 1]
    /\ next_id' = next_id + 1
    /\ n_calls' = n_calls + 1

Add(h, sc, at, body) ==
    /\ n_calls < MaxCalls
    /\ LET result == NewResult(next_id + 1, h, sc, at, body)
           s1 == StoreAdd(TheStore, result, max_memory_bytes)
       IN  /\ records' = s1.records
           /\ sizes' = s1.sizes
           /\ memory_usage' = s1.memory_usage
           /\ Observe(TheStore, s1, result)
    /\ UNCHANGED <<max_memory_bytes, crawlVars, crawlHistVars>>
    /\ UNCHANGED auxVars

\* update of a resident record whose serialization changed (a rating was
\* appended, a publication marker set)
Update(i, body) ==
    /\ i \in 1..Len(records)
    /\ n_calls < MaxCalls
    /\ body # records[i].rec.body
    /\ LET result == [records[i].rec EXCEPT !.body = body]
           s1 == StoreUpdate(TheStore, result)
       IN  /\ records' = s1.records
           /\ sizes' = s1.sizes
           /\ memory_usage' = s1.memory_usage
           /\ prev_call' = last_call
           /\ last_call' = [op |-> "update", arg |-> result, path |-> "none", evicted |-> {}]
           /\ n_calls' = n_calls + 1
    /\ UNCHANGED <<max_memory_bytes, next_id, inserted_at, crawlVars, crawlHistVars>>
    /\ UNCHANGED auxVars

\* CrawlerStore.__init__ with the given memory limits, no call made yet
EmptyStore(limits) ==
    /\ max_memory_bytes \in limits
    /\ records = <<>>
    /\ sizes = <<>>
    /\ memory_usage = 0
    /\ next_id = 0
    /\ n_calls = 0
    /\ inserted_at = <<>>
    /\ last_call = NoCall
    /\ prev_call = NoCall

\* CrawlerManager.__init__: no job, nothing cached, nothing buffered, no worker
IdleManager ==
    /\ jobs = <<>>
    /\ job_queue = <<>>
    /\ robots_cache = <<>>
    /\ train_buffer = <<>>
    /\ worker = [state |-> "none", job |-> 0]
    /\ queue = <<>>
    /\ visited = {}
    /\ fetch_log = <<>>
    /\ built = <<>>
    /\ fault = <<>>

\* no ready_for_publication call made yet
NoReadyCall == [made |-> FALSE, limit |-> 0, min_age_minutes |-> 0, now |-> 0, returned |-> <<>>]

\* UserCrawler.__init__: no worker task, the statistics at zero
IdleUser ==
    [running |-> FALSE, jobs_queued |-> 0, jobs_processed |-> 0, last_error |-> "none",
     calls |-> <<>>]

\* no request made through the RobustHTTPClient yet
NoRequest ==
    [method |-> "none", state |-> "idle", attempts |-> <<>>,
     result |-> [kind |-> "none", status |-> 0, what |-> "none"]]

\* what stream_chat has not yet seen of a job
NoJob == [found |-> FALSE, status |-> "none", pages_crawled |-> 0, results |-> 0]

\* no stream_chat call made yet
NoChat ==
    [pc |-> "idle", manager |-> "none", uncertain |-> FALSE, phrase |-> FALSE,
     urls |-> FALSE, created |-> 0, job_status |-> "none", updated_job |-> NoJob,
     observed |-> <<>>, fetched |-> 0, emitted |-> <<>>]

\* an empty training directory and the second CrawlerManager of the process
\* (UserCrawler._manager) as its constructor leaves it
NoSpool ==
    [index_file |-> <<>>, archive |-> <<>>, passes |-> <<>>, hour |-> 0, retention_days |-> 30,
     peer_buffer |-> <<>>, peer_index |-> <<>>]

\* the parts of the program that are not running
AuxIdle ==
    /\ ready_call = NoReadyCall
    /\ stop_event = FALSE
    /\ flusher = "none"
    /\ app = "none"
    /\ shards = <<>>
    /\ train_index = <<>>
    /\ flush_log = <<>>
    /\ gate_calls = <<>>
    /\ user = IdleUser
    /\ http = NoRequest
    /\ chat = NoChat
    /\ spool = NoSpool

StoreInit == EmptyStore(MemoryLimits) /\ IdleManager /\ AuxIdle

StoreNext ==
    \/ \E h \in Hashes, sc \in Scores, at \in Instants, body \in Bodies : Add(h, sc, at, body)
    \/ \E i \in 1..MaxCalls, body \in Bodies : Update(i, body)

StoreSpec == StoreInit /\ [][StoreNext]_vars

---------------------------------------------------------------------------
(* The web the crawler walks *)

\* urlparse(url).netloc of the pages: "a" and "b" on host a.test, "x" on x.test
Netloc(url) == IF url = "x" THEN "x.test" ELSE "a.test"

\* the anchors of a page as absolute URLs, in document order
Links(url) ==
    CASE url = "a" -> <<"b", "x", "b", "a">>
      [] url = "b" -> <<"a", "x">>
      [] OTHER -> <<"a">>

\* the keywords a page's text contains
PageKeywords(url) ==
    CASE url = "a" -> {"ai"}
      [] url = "b" -> {"ai", "linux"}
      [] OTHER -> {"ai"}

\* sha256 of the normalized text: "x" mirrors the text of "a"
PageHash(url) == IF url = "b" THEN 2 ELSE 1

\* serialized length of the result built from a page
PageBody(url) == IF url = "b" THEN 799 ELSE 399

\* what a page fetch can come to: the request raises, a status >= 400, a
\* content type other than text/html, an HTML page, an HTML page whose
\* publish date overflows in astimezone, an HTML page with an anchor urljoin
\* rejects
FetchOutcomes == {"error", "status", "not_html", "html", "html_bad_date", "html_bad_href"}

IsHtml(outcome) == outcome \in {"html", "html_bad_date", "html_bad_href"}

\* None where a RobotFileParser is expected
NoParser == [parsed |-> FALSE, disallow |-> {}]

\* what the robots.txt request can come to: None (it raises or is not a 200)
\* or a parser of a file that disallows a set of URLs
RobotsOutcomes == {NoParser, [parsed |-> TRUE, disallow |-> {}], [parsed |-> TRUE, disallow |-> {"b"}]}

---------------------------------------------------------------------------
(* CrawlJob and create_job *)

Min(a, b) == IF a <= b THEN a ELSE b

Max(a, b) == IF a >= b THEN a ELSE b

\* the limits create_job clamps a request to; the threshold is in percent
MaxDepthLimit == 5
MaxPagesLimit == 500
MinThreshold == 10
MaxThreshold == 95

\* [seed.strip() for seed in seeds if seed.strip()]
NormalizeSeeds(seeds) == SelectSeq(seeds, LAMBDA u : u # "")

SeqRange(q) == {q[i] : i \in 1..Len(q)}

\* the CrawlJob create_job builds; the relevance threshold is in percent
NewJob(id, req) ==
    [id |-> id,
     keywords |-> req.keywords,
     seeds |-> NormalizeSeeds(req.seeds),
     max_depth |-> Max(0, Min(req.max_depth, MaxDepthLimit)),
     max_pages |-> Max(1, Min(req.max_pages, MaxPagesLimit)),
     allowed_domains |-> {Netloc(u) : u \in SeqRange(NormalizeSeeds(req.seeds))},
     allow_external |-> req.allow_external,
     relevance_threshold |-> Max(MinThreshold, Min(req.relevance_threshold, MaxThreshold)),
     status |-> "queued",
     pages_crawled |-> 0,
     results |-> <<>>,
     error |-> "none"]

\* dict.__setitem__ on a dict keyed by small integers or strings
Put(d, key, v) == [k \in DOMAIN d \cup {key} |-> IF k = key THEN v ELSE d[k]]

---------------------------------------------------------------------------
(* Politeness gate, scoring, link extraction *)

\* f"{parsed.scheme}://{parsed.netloc}"
Origin(url) == Netloc(url)

\* _robots_cache.get(base): None for a missing origin and for a cached None
CachedParser(cache, base) == IF base \in DOMAIN cache THEN cache[base] ELSE NoParser

\* _can_fetch requests robots.txt: no parser in the cache for the origin
NeedsRobots(cache, url) == ~CachedParser(cache, Origin(url)).parsed

\* the cache after _can_fetch(url), the robots.txt request coming to `robots`
CacheAfter(cache, url, robots) ==
    IF NeedsRobots(cache, url) THEN Put(cache, Origin(url), robots) ELSE cache

\* the answer of _can_fetch(url) from the cache it leaves
CanFetch(cache, url) ==
    LET parser == CachedParser(cache, Origin(url))
    IN  IF parser.parsed THEN url \notin parser.disallow ELSE TRUE

\* _score_content: (score, matched) with the score as a fraction
ScoreContent(url, keywords) ==
    IF keywords = <<>>
    THEN [num |-> 0, den |-> 1]
    ELSE [num |-> Len(SelectSeq(keywords, LAMBDA k : k \in PageKeywords(url))),
          den |-> Len(keywords)]

\* the threshold compared against the number of matched keywords
AcceptsAnyMatch(job, score) == score.num * 100 >= job.relevance_threshold

\* score >= job.relevance_threshold
Accepts(job, score) == score.num * 100 >= job.relevance_threshold * score.den

\* ExtractLinks without the same-domain policy
ExtractLinksAnyDomain(url, job) == Links(url)

\* _extract_links: the anchors the same-domain policy lets through
ExtractLinks(url, job) ==
    SelectSeq(Links(url),
              LAMBDA l : job.allow_external \/ Netloc(l) \in job.allowed_domains)

\* Enqueued with appendleft in place of append: the links go to the front
EnqueuedInFront(q, url, depth, job, seen) ==
    LET links == SelectSeq(ExtractLinks(url, job), LAMBDA l : l \notin seen)
    IN  [i \in 1..Len(links) |-> [url |-> links[i], depth |-> depth + 1, parent |-> url]] \o q

\* the entries _process_job appends for the links of a page
Enqueued(q, url, depth, job, seen) ==
    LET links == SelectSeq(ExtractLinks(url, job), LAMBDA l : l \notin seen)
    IN  q \o [i \in 1..Len(links) |-> [url |-> links[i], depth |-> depth + 1, parent |-> url]]

\* _build_result: the CrawlResult of a page
BuildResult(id, job, url, depth, score) ==
    [id |-> id, job_id |-> job.id, url |-> url, depth |-> depth,
     content_hash |-> PageHash(url), score |-> score, updated_at |-> id,
     body |-> PageBody(url), size_bytes |-> 0]

---------------------------------------------------------------------------
(* CrawlerManager: create_job, _run_worker, _process_job *)

\* number of jobs create_job is called for in Spec
MaxJobs == 2

\* the requests create_job receives in Spec
Requests ==
    {[keywords |-> <<"ai", "linux">>, seeds |-> <<"a">>, max_depth |-> 0, max_pages |-> 1,
      relevance_threshold |-> 35, allow_external |-> FALSE],
     [keywords |-> <<"ai">>, seeds |-> <<"", "b">>, max_depth |-> 1, max_pages |-> 2,
      relevance_threshold |-> 35, allow_external |-> FALSE],
     [keywords |-> <<"ai", "linux">>, seeds |-> <<"b", "a", "b">>, max_depth |-> 0,
      max_pages |-> 2, relevance_threshold |-> 100, allow_external |-> TRUE],
     [keywords |-> <<>>, seeds |-> <<"">>, max_depth |-> 9, max_pages |-> 0,
      relevance_threshold |-> 100, allow_external |-> TRUE]}

\* the requests of the single job of JobSpec
JobRequests ==
    [keywords : {<<"ai">>, <<"ai", "linux">>},
     seeds : {<<"a">>, <<"b", "a", "b">>},
     max_depth : {0, 1, 2},
     max_pages : {0, 2},
     relevance_threshold : {35, 100},
     allow_external : {FALSE, TRUE}]

\* create_job
CreateJob(req) ==
    /\ Len(jobs) < MaxJobs
    /\ req.seeds # <<>>
    /\ LET id == Len(jobs) + 1
       IN  /\ jobs' = Append(jobs, NewJob(id, req))
           /\ job_queue' = Append(job_queue, id)
           /\ fetch_log' = Append(fetch_log, <<>>)
           /\ fault' = Append(fault, "none")
    /\ UNCHANGED <<storeVars, histVars, robots_cache, train_buffer, worker, queue, visited, built>>
    /\ UNCHANGED auxVars

\* TakeJob reading the head of the job queue without removing it
TakeJobPeek ==
    /\ worker.state = "waiting"
    /\ job_queue # <<>>
    /\ LET id == Head(job_queue)
       IN  /\ worker' = [state |-> "processing", job |-> id]
           /\ jobs' = [jobs EXCEPT ![id].status = "running"]
           /\ queue' = [i \in 1..Len(jobs[id].seeds) |->
                           [url |-> jobs[id].seeds[i], depth |-> 0, parent |-> "none"]]
           /\ visited' = {}
    /\ UNCHANGED <<storeVars, histVars, job_queue, robots_cache, train_buffer, crawlHistVars>>
    /\ UNCHANGED auxVars

\* _run_worker takes the next job id and _process_job begins: the job is
\* running and the deque holds its seeds at depth 0
TakeJob ==
    /\ worker.state = "waiting"
    /\ job_queue # <<>>
    /\ LET id == Head(job_queue)
       IN  /\ job_queue' = Tail(job_queue)
           /\ worker' = [state |-> "processing", job |-> id]
           /\ jobs' = [jobs EXCEPT ![id].status = "running"]
           /\ queue' = [i \in 1..Len(jobs[id].seeds) |->
                           [url |-> jobs[id].seeds[i], depth |-> 0, parent |-> "none"]]
           /\ visited' = {}
    /\ UNCHANGED <<storeVars, histVars, robots_cache, train_buffer, crawlHistVars>>
    /\ UNCHANGED auxVars

\* the loop condition without the page budget
LoopingQueueOnly(job) == queue # <<>>

\* the loop condition of _process_job
Looping(job) == queue # <<>> /\ job.pages_crawled < job.max_pages

\* visited.add(url) left out
MarkVisitedNot(seen, url) == seen

\* visited.add(url)
MarkVisited(seen, url) == seen \cup {url}

\* a page fetch attempt as the history records it
Attempt(item, outcome) == [url |-> item.url, depth |-> item.depth, outcome |-> outcome]

\* an iteration that ends before the fetch: the URL was visited, lies deeper
\* than max_depth, or the politeness gate denies it
SkipUrl(robots) ==
    /\ worker.state = "processing"
    /\ Looping(jobs[worker.job])
    /\ LET job == jobs[worker.job]
           item == Head(queue)
           cache == CacheAfter(robots_cache, item.url, robots)
       IN  /\ queue' = Tail(queue)
           /\ \/ /\ item.url \in visited
                 /\ robots = NoParser
                 /\ UNCHANGED <<visited, robots_cache>>
              \/ /\ item.url \notin visited
                 /\ item.depth > job.max_depth
                 /\ robots = NoParser
                 /\ visited' = MarkVisited(visited, item.url)
                 /\ UNCHANGED robots_cache
              \/ /\ item.url \notin visited
                 /\ item.depth <= job.max_depth
                 /\ NeedsRobots(robots_cache, item.url) \/ robots = NoParser
                 /\ ~CanFetch(cache, item.url)
                 /\ visited' = MarkVisited(visited, item.url)
                 /\ robots_cache' = cache
    /\ UNCHANGED <<storeVars, histVars, jobs, job_queue, train_buffer, worker, crawlHistVars>>
    /\ UNCHANGED auxVars

\* the state in which an iteration reaches self._client.get(url)
Fetching(robots) ==
    /\ worker.state = "processing"
    /\ Looping(jobs[worker.job])
    /\ Head(queue).url \notin visited
    /\ Head(queue).depth <= jobs[worker.job].max_depth
    /\ NeedsRobots(robots_cache, Head(queue).url) \/ robots = NoParser
    /\ CanFetch(CacheAfter(robots_cache, Head(queue).url, robots), Head(queue).url)

\* an iteration whose fetch raises, returns a status >= 400 or is not HTML
FetchSkipped(robots, outcome) ==
    /\ Fetching(robots)
    /\ ~IsHtml(outcome)
    /\ queue' = Tail(queue)
    /\ visited' = MarkVisited(visited, Head(queue).url)
    /\ robots_cache' = CacheAfter(robots_cache, Head(queue).url, robots)
    /\ fetch_log' = [fetch_log EXCEPT ![worker.job] = Append(@, Attempt(Head(queue), outcome))]
    /\ UNCHANGED <<storeVars, histVars, jobs, job_queue, train_buffer, worker, built, fault>>
    /\ UNCHANGED auxVars

\* the part of an iteration up to the store: the page scores at or above the
\* threshold, its result is built, added to the store, appended to
\* job.results and to the training buffer
AcceptPage(job, item, score) ==
    LET result == BuildResult(next_id + 1, job, item.url, item.depth, score)
        s1 == StoreAdd(TheStore, result, max_memory_bytes)
    IN  /\ records' = s1.records
        /\ sizes' = s1.sizes
        /\ memory_usage' = s1.memory_usage
        /\ next_id' = next_id + 1
        /\ train_buffer' = Append(train_buffer, Sized(result))
        /\ built' = Put(built, result.id, [job_id |-> job.id, url |-> item.url, score |-> score])
        /\ jobs' = [jobs EXCEPT ![job.id].results = Append(@, result.id),
                                ![job.id].pages_crawled = @ + 1]

\* RejectPage with the counter moved only for accepted pages
RejectPageUncounted(job) ==
    UNCHANGED <<jobs, records, sizes, memory_usage, next_id, train_buffer, built>>

\* the same part for a page below the threshold: only the counter moves
RejectPage(job) ==
    /\ jobs' = [jobs EXCEPT ![job.id].pages_crawled = @ + 1]
    /\ UNCHANGED <<records, sizes, memory_usage, next_id, train_buffer, built>>

\* an iteration that fetches an HTML page and runs to the end of the loop body
ProcessPage(robots, outcome) ==
    /\ Fetching(robots)
    /\ IsHtml(outcome)
    /\ LET job == jobs[worker.job]
           item == Head(queue)
           score == ScoreContent(item.url, job.keywords)
           seen == MarkVisited(visited, item.url)
       IN  /\ ~(outcome = "html_bad_date" /\ Accepts(job, score))
           /\ ~(outcome = "html_bad_href" /\ item.depth < job.max_depth)
           /\ IF Accepts(job, score) THEN AcceptPage(job, item, score) ELSE RejectPage(job)
           /\ visited' = seen
           /\ queue' = IF item.depth < job.max_depth
                       THEN Enqueued(Tail(queue), item.url, item.depth, job, seen)
                       ELSE Tail(queue)
           /\ robots_cache' = CacheAfter(robots_cache, item.url, robots)
           /\ fetch_log' = [fetch_log EXCEPT ![worker.job] = Append(@, Attempt(item, outcome))]
    /\ UNCHANGED <<max_memory_bytes, n_calls, inserted_at, last_call, prev_call,
                   job_queue, worker, fault>>
    /\ UNCHANGED auxVars

\* an iteration in which an exception escapes the loop body: _build_result
\* raises on an accepted page, or _extract_links raises after the page was
\* counted.  Nothing catches it in _process_job or _run_worker: the worker
\* task ends with the exception
PageRaises(robots, outcome) ==
    /\ Fetching(robots)
    /\ LET job == jobs[worker.job]
           item == Head(queue)
           score == ScoreContent(item.url, job.keywords)
       IN  /\ \/ /\ outcome = "html_bad_date"
                 /\ Accepts(job, score)
                 /\ UNCHANGED <<storeVars, next_id, train_buffer, built, jobs>>
              \/ /\ outcome = "html_bad_href"
                 /\ item.depth < job.max_depth
                 /\ IF Accepts(job, score) THEN AcceptPage(job, item, score) ELSE RejectPage(job)
                 /\ UNCHANGED max_memory_bytes
           /\ queue' = Tail(queue)
           /\ visited' = MarkVisited(visited, item.url)
           /\ robots_cache' = CacheAfter(robots_cache, item.url, robots)
           /\ fetch_log' = [fetch_log EXCEPT ![worker.job] = Append(@, Attempt(item, outcome))]
           /\ fault' = [fault EXCEPT ![worker.job] = outcome]
           /\ worker' = [state |-> "dead", job |-> worker.job]
    /\ UNCHANGED <<n_calls, inserted_at, last_call, prev_call, job_queue>>
    /\ UNCHANGED auxVars

\* the loop has ended: the job is completed and the worker waits for the next
FinishJob ==
    /\ worker.state = "processing"
    /\ ~Looping(jobs[worker.job])
    /\ jobs' = [jobs EXCEPT ![worker.job].status = "completed"]
    /\ worker' = [state |-> "waiting", job |-> 0]
    /\ UNCHANGED <<storeVars, histVars, job_queue, robots_cache, train_buffer,
                   queue, visited, crawlHistVars>>
    /\ UNCHANGED auxVars

WorkerNext ==
    \/ TakeJob
    \/ \E robots \in RobotsOutcomes : SkipUrl(robots)
    \/ \E robots \in RobotsOutcomes, outcome \in FetchOutcomes : FetchSkipped(robots, outcome)
    \/ \E robots \in RobotsOutcomes, outcome \in FetchOutcomes : ProcessPage(robots, outcome)
    \/ \E robots \in RobotsOutcomes, outcome \in FetchOutcomes : PageRaises(robots, outcome)
    \/ FinishJob

\* start() has run: the worker task waits on the job queue
Started == worker = [state |-> "waiting", job |-> 0]

\* a started manager with a store of 1000 bytes and no job yet
Init ==
    /\ EmptyStore({1000})
    /\ jobs = <<>>
    /\ job_queue = <<>>
    /\ robots_cache = <<>>
    /\ train_buffer = <<>>
    /\ Started
    /\ queue = <<>>
    /\ visited = {}
    /\ fetch_log = <<>>
    /\ built = <<>>
    /\ fault = <<>>
    /\ AuxIdle

Next ==
    \/ \E req \in Requests : CreateJob(req)
    \/ WorkerNext

Spec == Init /\ [][Next]_vars

\* the event loop keeps running the worker task while it has a step to take
FairSpec == Spec /\ WF_vars(WorkerNext)

\* a started manager whose queue holds one job, created from any request
JobInit ==
    /\ EmptyStore({1000})
    /\ \E req \in JobRequests :
         /\ jobs = <<NewJob(1, req)>>
         /\ job_queue = <<1>>
    /\ robots_cache = <<>>
    /\ train_buffer = <<>>
    /\ Started
    /\ queue = <<>>
    /\ visited = {}
    /\ fetch_log = <<<<>>>>
    /\ built = <<>>
    /\ fault = <<"none">>
    /\ AuxIdle

JobSpec == JobInit /\ [][WorkerNext]_vars

---------------------------------------------------------------------------
(* The result interface of the manager: add_feedback, mark_posted,         *)
(* ready_for_publication                                                   *)

\* number of store calls (add, update) the result interface makes in PubSpec
MaxOps == 6

\* number of results that enter the store in PubSpec
MaxResults == 2

\* serialized length of one entry of "ratings" (CrawlFeedback.to_dict)
FeedbackBytes == 117

\* what mark_posted adds to the serialization of a pending result:
\* "published" for "pending" and an ISO timestamp for null
PostedBytes == 32

\* the feedback the callers send: a score and the confirmed flag
Feedbacks == {[score |-> 7, confirmed |-> TRUE], [score |-> 3, confirmed |-> FALSE]}

\* limit and min_age_minutes of the ready_for_publication calls
Limits == {0, 1, 2}
MinAges == {0, 1}

\* a CrawlResult as _build_result leaves it: pending, unrated, unposted
CrawlResult(id, h, sc, at, body) ==
    [id |-> id, content_hash |-> h, score |-> sc, created_at |-> at, updated_at |-> at,
     body |-> body, size_bytes |-> 0, status |-> "pending", posted_at |-> 0,
     ratings |-> <<>>, rating_count |-> 0, rating_average |-> [num |-> 0, den |-> 1],
     confirmations |-> 0]

\* CrawlerStore.get
StoreGet(s, result_id) ==
    IF result_id \in Keys(s.records) THEN s.records[IndexOf(s.records, result_id)].rec
    ELSE NoResult

\* the store after the object returned by get(result_id) was changed in
\* place: the dict holds that same object
Mutated(s, result_id, result) == [s EXCEPT !.records = DictSet(s.records, result_id, result)]

RECURSIVE SumScores(_)
\* sum(item.score for item in result.ratings)
SumScores(ratings) ==
    IF ratings = <<>> THEN 0 ELSE Head(ratings).score + SumScores(Tail(ratings))

\* max(0.0, min(score, 5.0))
ClampScore(score) == Max(0, Min(score, 5))

\* the result after add_feedback appended a feedback and recomputed the
\* rating fields; size_bytes is not among them
Rated(result, fb, now) ==
    LET ratings == Append(result.ratings,
                          [score |-> ClampScore(fb.score), confirmed |-> fb.confirmed])
    IN  [result EXCEPT !.ratings = ratings,
                       !.rating_count = Len(ratings),
                       !.rating_average = [num |-> SumScores(ratings),
                                           den |-> Max(1, Len(ratings))],
                       !.confirmations = IF fb.confirmed THEN @ + 1 ELSE @,
                       !.updated_at = now,
                       !.body = @ + FeedbackBytes]

\* the result after mark_posted set the publication fields
Posted(result, now) ==
    [result EXCEPT !.status = "published",
                   !.posted_at = now,
                   !.updated_at = now,
                   !.body = IF result.status = "published" THEN @ ELSE @ + PostedBytes]

\* the instants datetime.now() can return: not before any resident timestamp
Now(now) ==
    /\ now \in Instants
    /\ \A i \in 1..Len(records) : records[i].rec.updated_at <= now

\* a crawl result enters the store (store.add as _process_job calls it)
AddResult(h, sc, at) ==
    /\ n_calls < MaxOps
    /\ next_id < MaxResults
    /\ Now(at)
    /\ LET result == CrawlResult(next_id + 1, h, sc, at, 399)
           s1 == StoreAdd(TheStore, result, max_memory_bytes)
       IN  /\ records' = s1.records
           /\ sizes' = s1.sizes
           /\ memory_usage' = s1.memory_usage
    /\ next_id' = next_id + 1
    /\ n_calls' = n_calls + 1
    /\ ready_call' = NoReadyCall
    /\ UNCHANGED <<max_memory_bytes, inserted_at, last_call, prev_call, crawlVars,
                   crawlHistVars, flushVars, gate_calls, user, http, chat, spool>>

\* CrawlerManager.add_feedback on a resident result
AddFeedback(result_id, fb, now) ==
    /\ n_calls < MaxOps
    /\ result_id \in Keys(records)
    /\ Now(now)
    /\ LET result == Rated(StoreGet(TheStore, result_id), fb, now)
           s1 == StoreUpdate(Mutated(TheStore, result_id, result), result)
       IN  /\ records' = s1.records
           /\ sizes' = s1.sizes
           /\ memory_usage' = s1.memory_usage
    /\ n_calls' = n_calls + 1
    /\ ready_call' = NoReadyCall
    /\ UNCHANGED <<max_memory_bytes, next_id, inserted_at, last_call, prev_call, crawlVars,
                   crawlHistVars, flushVars, gate_calls, user, http, chat, spool>>

\* CrawlerManager.mark_posted on a resident result
MarkPosted(result_id, now) ==
    /\ n_calls < MaxOps
    /\ result_id \in Keys(records)
    /\ Now(now)
    /\ LET result == Posted(StoreGet(TheStore, result_id), now)
           s1 == StoreUpdate(Mutated(TheStore, result_id, result), result)
       IN  /\ records' = s1.records
           /\ sizes' = s1.sizes
           /\ memory_usage' = s1.memory_usage
    /\ n_calls' = n_calls + 1
    /\ ready_call' = NoReadyCall
    /\ UNCHANGED <<max_memory_bytes, next_id, inserted_at, last_call, prev_call, crawlVars,
                   crawlHistVars, flushVars, gate_calls, user, http, chat, spool>>

\* list(self._records.values()): the resident records in dict order
StoreValues(s) == [i \in 1..Len(s.records) |-> s.records[i].rec]

\* the predicate with the rating count left out
PublishableAnyCount(result, cutoff) ==
    /\ ~(result.status = "published")
    /\ ~(result.rating_average.num < 4 * result.rating_average.den)
    /\ ~(result.confirmations < 1)
    /\ ~(result.created_at > cutoff)

\* the predicate of ready_for_publication
Publishable(result, cutoff) ==
    /\ ~(result.status = "published")
    /\ ~(result.rating_count < 2)
    /\ ~(result.rating_average.num < 4 * result.rating_average.den)
    /\ ~(result.confirmations < 1)
    /\ ~(result.created_at > cutoff)

\* the position list.sort(reverse=True) gives r among results already in
\* order: behind every result with a score at least its own
InsertByScore(sorted, r) ==
    LET k == Cardinality({i \in 1..Len(sorted) : ~ScoreGT(r.score, sorted[i].score)})
    IN  SubSeq(sorted, 1, k) \o <<r>> \o SubSeq(sorted, k + 1, Len(sorted))

RECURSIVE SortByScore(_)
\* results.sort(key=lambda item: item.score, reverse=True), a stable sort
SortByScore(results) ==
    IF results = <<>> THEN <<>>
    ELSE InsertByScore(SortByScore(SubSeq(results, 1, Len(results) - 1)),
                       results[Len(results)])

\* results[:limit] for a limit >= 0
Truncated(results, limit) == SubSeq(results, 1, Min(limit, Len(results)))

\* what ready_for_publication returns
ReadyList(s, limit, cutoff) ==
    Truncated(SortByScore(SelectSeq(StoreValues(s), LAMBDA r : Publishable(r, cutoff))),
              limit)

\* CrawlerManager.ready_for_publication
ReadyForPublication(limit, min_age_minutes, now) ==
    /\ Now(now)
    /\ ready_call' = [made |-> TRUE, limit |-> limit, min_age_minutes |-> min_age_minutes,
                      now |-> now,
                      returned |-> ReadyList(TheStore, limit, now - min_age_minutes)]
    /\ UNCHANGED <<storeVars, histVars, crawlVars, crawlHistVars, flushVars, gate_calls,
                   user, http, chat, spool>>

\* feedback, publication and the publication query happen at the latest instant
Latest == CHOOSE t \in Instants : \A u \in Instants : u <= t

PubInit == EmptyStore({1000}) /\ IdleManager /\ AuxIdle

PubNext ==
    \/ \E h \in {0, 1}, sc \in Scores, at \in Instants : AddResult(h, sc, at)
    \/ \E id \in 1..MaxOps, fb \in Feedbacks : AddFeedback(id, fb, Latest)
    \/ \E id \in 1..MaxOps : MarkPosted(id, Latest)
    \/ \E limit \in Limits, age \in MinAges : ReadyForPublication(limit, age, Latest)

PubSpec == PubInit /\ [][PubNext]_vars

---------------------------------------------------------------------------
(* Training shards and the lifecycle of the application: flush_hourly,     *)
(* flush_to_jsonl, stop, shutdown_flush (main.py: _start_crawler,          *)
(* _stop_crawler)                                                          *)

\* the hours datetime.now() falls into while the application runs
Hours == {1, 2}

\* what the file system does to a flush: nothing wrong, jsonlines.open
\* raises, writer.write raises after the first record, or writing the index
\* file raises
IoOutcomes == {"ok", "open_error", "write_error", "index_error"}

\* the ids of the buffered results, in order
BufferedIds(buffer) == [i \in 1..Len(buffer) |-> buffer[i].id]

\* the shard file after `ids` were appended to it (mode "a" creates it)
Appended(files, name, ids) ==
    Put(files, name, (IF name \in DOMAIN files THEN files[name] ELSE <<>>) \o ids)

\* the index after a flush of n records to the shard: the entry of the shard
\* grows, or a new entry is appended
Indexed(index, name, n) ==
    IF \E i \in 1..Len(index) : index[i].name = name
    THEN [i \in 1..Len(index) |->
             IF index[i].name = name /\ \A j \in 1..(i - 1) : index[j].name # name
             THEN [index[i] EXCEPT !.records = @ + n]
             ELSE index[i]]
    ELSE Append(index, [name |-> name, records |-> n])

\* flush_to_jsonl in the hour `hour`, the file system behaving as `io`: the
\* buffer, the files and the index it leaves, and whether it raised
FlushToJsonl(buffer, files, index, hour, io) ==
    IF buffer = <<>>
    THEN [buffer |-> buffer, files |-> files, index |-> index, raised |-> FALSE]
    ELSE CASE io = "open_error" ->
                [buffer |-> buffer, files |-> files, index |-> index, raised |-> TRUE]
           [] io = "write_error" ->
                [buffer |-> buffer,
                 files |-> Appended(files, hour, SubSeq(BufferedIds(buffer), 1, 1)),
                 index |-> index, raised |-> TRUE]
           [] io = "index_error" ->
                [buffer |-> <<>>,
                 files |-> Appended(files, hour, BufferedIds(buffer)),
                 index |-> Indexed(index, hour, Len(buffer)), raised |-> TRUE]
           [] OTHER ->
                [buffer |-> <<>>,
                 files |-> Appended(files, hour, BufferedIds(buffer)),
                 index |-> Indexed(index, hour, Len(buffer)), raised |-> FALSE]

\* the flush reaches _save_train_index and the index file is written
IndexSaved(buffer, io) == buffer # <<>> /\ io = "ok"

\* the clock does not run backwards: no shard of a later hour exists
HourNow(hour) == hour \in Hours /\ \A name \in DOMAIN shards : name <= hour

\* the effect of one flush_to_jsonl call made by `by` on the manager
Flush(by, hour, io) ==
    LET f == FlushToJsonl(train_buffer, shards, train_index, hour, io)
    IN  /\ train_buffer' = f.buffer
        /\ shards' = f.files
        /\ train_index' = f.index
        /\ flush_log' = IF train_buffer = <<>> THEN flush_log
                        ELSE Append(flush_log, [by |-> by, io |-> io, raised |-> f.raised,
                                                buffered |-> BufferedIds(train_buffer)])
        /\ spool' = IF IndexSaved(train_buffer, io)
                    THEN [spool EXCEPT !.index_file = f.index] ELSE spool

\* one turn of flush_hourly: the sleep ends and flush_to_jsonl runs; an
\* exception of flush_to_jsonl ends the task, otherwise the loop condition
\* is tested
FlushHourly(hour, io) ==
    /\ flusher = "sleeping"
    /\ app \in {"running", "stopping", "stopped"}
    /\ HourNow(hour)
    /\ Flush("flush_hourly", hour, io)
    /\ flusher' = IF FlushToJsonl(train_buffer, shards, train_index, hour, io).raised
                  THEN "dead"
                  ELSE IF stop_event THEN "ended" ELSE "sleeping"
    /\ UNCHANGED <<storeVars, histVars, jobs, job_queue, robots_cache, worker, queue, visited,
                   crawlHistVars, ready_call, stop_event, app, gate_calls, user, http, chat>>

\* _stop_crawler calls stop(): the stop event is set and stop() awaits the
\* worker task
Stop ==
    /\ app = "running"
    /\ stop_event' = TRUE
    /\ app' = "stopping"
    /\ UNCHANGED <<storeVars, histVars, crawlVars, crawlHistVars, ready_call, flusher, shards,
                   train_index, flush_log, gate_calls, user, http, chat, spool>>

\* the worker, idle, sees the stop event and returns; stop() returns
StopReturns ==
    /\ app = "stopping"
    /\ worker.state = "waiting"
    /\ worker' = [state |-> "none", job |-> 0]
    /\ app' = "stopped"
    /\ UNCHANGED <<storeVars, histVars, jobs, job_queue, robots_cache, train_buffer, queue,
                   visited, crawlHistVars, ready_call, stop_event, flusher, shards, train_index,
                   flush_log, gate_calls, user, http, chat, spool>>

\* the worker task had ended with an exception: awaiting it raises that
\* exception out of stop() and out of _stop_crawler
StopRaises ==
    /\ app = "stopping"
    /\ worker.state = "dead"
    /\ app' = "aborted"
    /\ UNCHANGED <<storeVars, histVars, crawlVars, crawlHistVars, ready_call, stop_event,
                   flusher, shards, train_index, flush_log, gate_calls, user, http, chat, spool>>

\* _stop_crawler calls shutdown_flush() after stop() returned
ShutdownFlush(hour, io) ==
    /\ app = "stopped"
    /\ HourNow(hour)
    /\ Flush("shutdown_flush", hour, io)
    /\ app' = IF FlushToJsonl(train_buffer, shards, train_index, hour, io).raised
              THEN "flush_raised" ELSE "down"
    /\ UNCHANGED <<storeVars, histVars, jobs, job_queue, robots_cache, worker, queue, visited,
                   crawlHistVars, ready_call, stop_event, flusher, gate_calls, user, http, chat>>

\* the requests of the job that is queued when FlushSpec begins
FlushRequests ==
    {req \in JobRequests :
        /\ req.keywords = <<"ai">> /\ req.max_depth = 1 /\ req.max_pages = 2
        /\ req.relevance_threshold = 35 /\ ~req.allow_external}

\* _start_crawler has run: the worker waits, flush_hourly sleeps, and one job
\* is queued
FlushInit ==
    /\ EmptyStore({1000})
    /\ \E req \in FlushRequests :
         /\ jobs = <<NewJob(1, req)>>
         /\ job_queue = <<1>>
    /\ robots_cache = <<>>
    /\ train_buffer = <<>>
    /\ Started
    /\ queue = <<>>
    /\ visited = {}
    /\ fetch_log = <<<<>>>>
    /\ built = <<>>
    /\ fault = <<"none">>
    /\ ready_call = NoReadyCall
    /\ stop_event = FALSE
    /\ flusher = "sleeping"
    /\ app = "running"
    /\ shards = <<>>
    /\ train_index = <<>>
    /\ flush_log = <<>>
    /\ gate_calls = <<>>
    /\ user = IdleUser
    /\ http = NoRequest
    /\ chat = NoChat
    /\ spool = NoSpool

FlushNext ==
    \/ WorkerNext
    \/ \E hour \in Hours, io \in IoOutcomes : FlushHourly(hour, io)
    \/ Stop
    \/ StopReturns
    \/ StopRaises
    \/ \E hour \in Hours, io \in IoOutcomes : ShutdownFlush(hour, io)

FlushSpec == FlushInit /\ [][FlushNext]_vars

---------------------------------------------------------------------------
(* The training directory under two managers and the daily compaction:     *)
(* the module-level crawler_manager and UserCrawler._manager append to the *)
(* same shard files and write the same index.json; compact_spool runs on   *)
(* crawler_manager (main.py)                                               *)

\* results the two managers buffer in SpoolSpec
MaxBuffered == 3

\* flushes and compaction passes in SpoolSpec
MaxSpoolOps == 4

\* flushes and compaction passes so far
SpoolOps == Len(flush_log) + Len(spool.passes)

\* the hours of the clock in SpoolSpec: two hours of one day and an hour of
\* the next day, more than 24 hours after both
SpoolHours == {1, 2, 27}

\* shard_date < cutoff_date: the shard of hour `name` is older than the
\* retention window at an instant within the hour `hour`
Older(name, hour, retention_days) == name + 24 * retention_days <= hour

\* what gzip-compressing a shard can come to: the archive is written, the
\* shard cannot be read, or writing the archive fails after it was opened
GzipOutcomes == {"ok", "read_error", "gzip_error"}

\* _process_job accepts a page on manager m: the result goes to the training
\* buffer of m
Buffered(m) ==
    /\ next_id < MaxBuffered
    /\ next_id' = next_id + 1
    /\ LET result == Sized(NewResult(next_id + 1, next_id + 1, [num |-> 1, den |-> 1], 1, 399))
       IN  IF m = "crawler_manager"
           THEN train_buffer' = Append(train_buffer, result) /\ UNCHANGED spool
           ELSE /\ spool' = [spool EXCEPT !.peer_buffer = Append(@, result)]
                /\ UNCHANGED train_buffer
    /\ UNCHANGED <<storeVars, n_calls, inserted_at, last_call, prev_call, jobs, job_queue,
                   robots_cache, worker, queue, visited, crawlHistVars, ready_call, flushVars,
                   gate_calls, user, http, chat>>

\* flush_to_jsonl on manager m with a non-empty buffer: the shard of the hour
\* grows, the index m holds in memory is updated and written to index.json
SpoolFlush(m, hour, io) ==
    /\ SpoolOps < MaxSpoolOps
    /\ hour \in SpoolHours /\ hour >= spool.hour
    /\ LET own == m = "crawler_manager"
           buffer == IF own THEN train_buffer ELSE spool.peer_buffer
           index == IF own THEN train_index ELSE spool.peer_index
           f == FlushToJsonl(buffer, shards, index, hour, io)
           file == IF IndexSaved(buffer, io) THEN f.index ELSE spool.index_file
       IN  /\ buffer # <<>>
           /\ shards' = f.files
           /\ flush_log' = Append(flush_log, [by |-> m, io |-> io, raised |-> f.raised,
                                              buffered |-> BufferedIds(buffer)])
           /\ train_buffer' = IF own THEN f.buffer ELSE train_buffer
           /\ train_index' = IF own THEN f.index ELSE train_index
           /\ spool' = [spool EXCEPT
                           !.hour = hour, !.index_file = file,
                           !.peer_buffer = IF own THEN @ ELSE f.buffer,
                           !.peer_index = IF own THEN @ ELSE f.index]
    /\ UNCHANGED <<storeVars, histVars, jobs, job_queue, robots_cache, worker, queue, visited,
                   crawlHistVars, ready_call, stop_event, flusher, app, gate_calls, user,
                   http, chat>>

RECURSIVE Compacted(_, _, _, _, _, _)
\* the loop of compact_spool over the index entries from position i on: the
\* shard files, the archive and the entries kept
Compacted(index, i, d, hour, retention_days, gz) ==
    IF i > Len(index) THEN d
    ELSE LET name == index[i].name
             keep == [d EXCEPT !.kept = Append(@, index[i])]
         IN  IF name \notin DOMAIN d.files
             THEN Compacted(index, i + 1, d, hour, retention_days, gz)
             ELSE IF ~Older(name, hour, retention_days)
                  THEN Compacted(index, i + 1, keep, hour, retention_days, gz)
                  ELSE CASE gz = "ok" ->
                              Compacted(index, i + 1,
                                  [d EXCEPT !.archive = Put(@, name, d.files[name]),
                                            !.files = [n \in DOMAIN @ \ {name} |-> @[n]]],
                                  hour, retention_days, gz)
                         [] gz = "gzip_error" ->
                              Compacted(index, i + 1,
                                  [keep EXCEPT !.archive = Put(@, name, <<>>)],
                                  hour, retention_days, gz)
                         [] OTHER ->
                              Compacted(index, i + 1, keep, hour, retention_days, gz)

\* one pass of compact_spool on crawler_manager, a day of sleep after the
\* pass before it
CompactSpool(hour, gz) ==
    /\ SpoolOps < MaxSpoolOps
    /\ hour \in SpoolHours /\ hour >= spool.hour
    /\ spool.passes # <<>> => hour >= spool.passes[Len(spool.passes)].hour + 24
    /\ LET d == Compacted(train_index, 1,
                          [files |-> shards, archive |-> spool.archive, kept |-> <<>>],
                          hour, spool.retention_days, gz)
       IN  /\ shards' = d.files
           /\ train_index' = d.kept
           /\ spool' = [spool EXCEPT
                           !.hour = hour, !.archive = d.archive, !.index_file = d.kept,
                           !.passes = Append(@, [hour |-> hour, gz |-> gz])]
    /\ UNCHANGED <<storeVars, histVars, crawlVars, crawlHistVars, ready_call, stop_event,
                   flusher, app, flush_log, gate_calls, user, http, chat>>

\* both managers constructed on an empty training directory, with a
\* retention of 0 days or of 1 day
SpoolInit ==
    /\ EmptyStore({1000})
    /\ IdleManager
    /\ ready_call = NoReadyCall
    /\ stop_event = FALSE
    /\ flusher = "none"
    /\ app = "none"
    /\ shards = <<>>
    /\ train_index = <<>>
    /\ flush_log = <<>>
    /\ gate_calls = <<>>
    /\ user = IdleUser
    /\ http = NoRequest
    /\ chat = NoChat
    /\ \E days \in {0, 1} : spool = [NoSpool EXCEPT !.retention_days = days]

SpoolNext ==
    \/ \E m \in {"crawler_manager", "user_crawler"} : Buffered(m)
    \/ \E m \in {"crawler_manager", "user_crawler"}, hour \in SpoolHours, io \in IoOutcomes :
           SpoolFlush(m, hour, io)
    \/ \E hour \in SpoolHours, gz \in GzipOutcomes : CompactSpool(hour, gz)

SpoolSpec == SpoolInit /\ [][SpoolNext]_vars

---------------------------------------------------------------------------
(* The politeness gate driven directly: _can_fetch on a started manager *)

\* number of _can_fetch calls in GateSpec
MaxGateCalls == 3

\* the URLs _can_fetch is asked about
GateUrls == {"a", "b", "x"}

\* _can_fetch(url); `robots` is what the robots.txt request comes to when the
\* call makes one
CanFetchCall(url, robots) ==
    /\ Len(gate_calls) < MaxGateCalls
    /\ NeedsRobots(robots_cache, url) \/ robots = NoParser
    /\ robots_cache' = CacheAfter(robots_cache, url, robots)
    /\ gate_calls' = Append(gate_calls,
                            [url |-> url,
                             requested |-> NeedsRobots(robots_cache, url),
                             robots |-> robots,
                             answer |-> CanFetch(CacheAfter(robots_cache, url, robots), url)])
    /\ UNCHANGED <<storeVars, histVars, jobs, job_queue, train_buffer, worker, queue, visited,
                   crawlHistVars, ready_call, flushVars, user, http, chat, spool>>

GateNext == \E url \in GateUrls, robots \in RobotsOutcomes : CanFetchCall(url, robots)

GateSpec == Init /\ [][GateNext]_vars

---------------------------------------------------------------------------
(* UserCrawler (user_crawler.py): a crawler of its own CrawlerManager, the *)
(* manager modelled above                                                  *)

\* number of crawl_url calls in UserSpec
MaxUserCalls == 3

\* the keyword parameters of CrawlerManager.create_job (it takes no **kwargs)
CreateJobParams ==
    {"keywords", "seeds", "max_depth", "max_pages", "rate_limit", "relevance_threshold",
     "allow_external", "user_context", "requested_by", "metadata"}

\* a call with these keyword arguments binds; otherwise Python raises
\* TypeError before the body of create_job runs
Binds(kwargs) == kwargs \subseteq CreateJobParams

\* the attributes CrawlerManager.__init__ sets; reading another one raises
\* AttributeError
ManagerAttributes ==
    {"_store", "_jobs", "_job_queue", "_robots_cache", "_client", "_worker_task",
     "_stop_event", "_lock", "_random", "_train_dir", "_train_index_path",
     "_current_shard_path", "_last_flush_time", "_train_buffer", "_flush_interval",
     "_retention_days", "_train_index"}

\* the keyword arguments crawl_url passes to create_job
CrawlUrlKwargs ==
    {"keywords", "seeds", "max_depth", "max_pages", "allow_external", "user_context",
     "requested_by", "priority"}

\* the request crawl_url makes for a URL
CrawlUrlRequest(url, keywords, max_pages) ==
    [keywords |-> IF keywords = <<>> THEN <<"tech", "news", "ai", "linux", "software">>
                  ELSE keywords,
     seeds |-> <<url>>, max_depth |-> 2, max_pages |-> max_pages,
     relevance_threshold |-> 35, allow_external |-> FALSE]

\* UserCrawler.start: the manager is started, the dedicated workers spawned
UserStart ==
    /\ ~user.running
    /\ user' = [user EXCEPT !.running = TRUE]
    /\ worker' = IF worker.state = "none" THEN [state |-> "waiting", job |-> 0] ELSE worker
    /\ stop_event' = FALSE
    /\ UNCHANGED <<storeVars, histVars, jobs, job_queue, robots_cache, train_buffer, queue,
                   visited, crawlHistVars, ready_call, flusher, app, shards, train_index,
                   flush_log, gate_calls, http, chat, spool>>

\* UserCrawler.stop: the dedicated workers are cancelled, the manager stopped
\* (its worker, idle, returns)
UserStop ==
    /\ user.running
    /\ worker.state = "waiting"
    /\ user' = [user EXCEPT !.running = FALSE]
    /\ worker' = [state |-> "none", job |-> 0]
    /\ stop_event' = TRUE
    /\ UNCHANGED <<storeVars, histVars, jobs, job_queue, robots_cache, train_buffer, queue,
                   visited, crawlHistVars, ready_call, flusher, app, shards, train_index,
                   flush_log, gate_calls, http, chat, spool>>

\* UserCrawler.crawl_url: create_job is called with CrawlUrlKwargs; when the
\* call binds the job is created and queued and jobs_queued counted,
\* otherwise the TypeError reaches the caller
CrawlUrl(url, keywords, max_pages) ==
    /\ Len(user.calls) < MaxUserCalls
    /\ IF Binds(CrawlUrlKwargs)
       THEN LET id == Len(jobs) + 1
            IN  /\ jobs' = Append(jobs, NewJob(id, CrawlUrlRequest(url, keywords, max_pages)))
                /\ job_queue' = Append(job_queue, id)
                /\ fetch_log' = Append(fetch_log, <<>>)
                /\ fault' = Append(fault, "none")
                /\ user' = [user EXCEPT
                               !.jobs_queued = @ + 1,
                               !.calls = Append(@, [url |-> url, started |-> user.running,
                                                    job |-> id, raised |-> "none"])]
       ELSE /\ user' = [user EXCEPT
                           !.calls = Append(@, [url |-> url, started |-> user.running,
                                                job |-> 0, raised |-> "TypeError"])]
            /\ UNCHANGED <<jobs, job_queue, fetch_log, fault>>
    /\ UNCHANGED <<storeVars, histVars, robots_cache, train_buffer, worker, queue, visited,
                   built, ready_call, flushVars, gate_calls, http, chat, spool>>

\* one turn of the loop of _dedicated_worker: reading
\* self._manager._high_priority_job_queue raises AttributeError, which the
\* loop catches, logs and sleeps on; no job id is taken, no statistic moves
DedicatedWorker ==
    /\ user.running
    /\ "_high_priority_job_queue" \notin ManagerAttributes
    /\ user' = [user EXCEPT !.last_error = "AttributeError"]
    /\ UNCHANGED <<storeVars, histVars, crawlVars, crawlHistVars, ready_call, flushVars,
                   gate_calls, http, chat, spool>>

UserInit == EmptyStore({1000}) /\ IdleManager /\ AuxIdle

UserNext ==
    \/ UserStart
    \/ UserStop
    \/ \E url \in GateUrls, keywords \in {<<>>, <<"ai">>}, max_pages \in {1, 10} :
           CrawlUrl(url, keywords, max_pages)
    \/ DedicatedWorker

UserSpec == UserInit /\ [][UserNext]_vars

\* the event loop keeps running the tasks and the callers that are ready
UserFairSpec == UserSpec /\ WF_vars(UserNext)

---------------------------------------------------------------------------
(* RobustHTTPClient (utils/http_client.py): get and post under the         *)
(* tenacity retry decorator                                                *)

\* stop_after_attempt(3)
StopAfterAttempt == 3

\* RobustHTTPClient.retry_on_status
RetryOnStatus == {408, 429, 500, 502, 503, 504}

\* what one client.get / client.post comes to: it raises an exception of the
\* class `what` (status 0), or returns a Response with a status code
HttpOutcomes ==
    [kind : {"raise"}, status : {0},
     what : {"TimeoutException", "NetworkError", "ConnectError", "ValueError"}]
        \cup [kind : {"response"}, status : {200, 404} \cup RetryOnStatus, what : {"Response"}]

\* httpx.HTTPStatusError(..., response=response)
HTTPStatusError(response) ==
    [kind |-> "raise", status |-> response.status, what |-> "HTTPStatusError"]

\* the classes an exception is an instance of
Bases(exc) ==
    CASE exc = "ConnectError" -> {"ConnectError", "NetworkError", "TransportError"}
      [] exc = "NetworkError" -> {"NetworkError", "TransportError"}
      [] exc = "TimeoutException" -> {"TimeoutException", "TransportError"}
      [] exc = "HTTPStatusError" -> {"HTTPStatusError", "HTTPError"}
      [] OTHER -> {exc}

\* the body of get / post on one attempt: the response it returns or the
\* exception that leaves it (every except clause logs and re-raises)
AttemptBody(outcome) ==
    IF outcome.kind = "raise" THEN outcome
    ELSE IF outcome.status \in RetryOnStatus
         THEN HTTPStatusError(outcome)
         ELSE IF outcome.status >= 400
              THEN HTTPStatusError(outcome)
              ELSE outcome

\* a retry predicate that also names HTTPStatusError
RetryIfWithStatus(exc) ==
    Bases(exc) \cap {"TimeoutException", "NetworkError", "HTTPStatusError"} # {}

\* retry_if_exception_type((httpx.TimeoutException, httpx.NetworkError))
RetryIf(exc) == Bases(exc) \cap {"TimeoutException", "NetworkError"} # {}

\* the stop condition one attempt late
StopsLate(attempt_number) == attempt_number > StopAfterAttempt

\* stop_after_attempt: no further attempt after this one
Stops(attempt_number) == attempt_number >= StopAfterAttempt

\* a caller awaits get(url) or post(url)
HttpCall(method) ==
    /\ http.state = "idle"
    /\ http' = [http EXCEPT !.method = method, !.state = "calling"]
    /\ UNCHANGED <<storeVars, histVars, crawlVars, crawlHistVars, ready_call, flushVars,
                   gate_calls, user, chat, spool>>

\* one attempt: the body runs; a returned response ends the call, an
\* exception is retried when the retry predicate accepts it and the stop
\* condition does not hold, and is re-raised to the caller otherwise
HttpAttempt(outcome) ==
    /\ http.state = "calling"
    /\ LET attempts == Append(http.attempts, outcome)
           ended == AttemptBody(outcome)
       IN  http' = [http EXCEPT
                       !.attempts = attempts,
                       !.state = IF ended.kind = "response" THEN "returned"
                                 ELSE IF RetryIf(ended.what) /\ ~Stops(Len(attempts))
                                      THEN "calling" ELSE "raised",
                       !.result = IF ended.kind = "response" \/ ~RetryIf(ended.what)
                                     \/ Stops(Len(attempts))
                                  THEN ended ELSE @]
    /\ UNCHANGED <<storeVars, histVars, crawlVars, crawlHistVars, ready_call, flushVars,
                   gate_calls, user, chat, spool>>

HttpInit == EmptyStore({1000}) /\ IdleManager /\ AuxIdle

HttpNext ==
    \/ \E method \in {"get", "post"} : HttpCall(method)
    \/ \E outcome \in HttpOutcomes : HttpAttempt(outcome)

HttpSpec == HttpInit /\ [][HttpNext]_vars

----------------------------------------------------------------------------
(* stream_chat: the crawler tool of the chat service *)

\* polls of get_job one stream_chat call is followed for
MaxPolls == 2

\* the keyword arguments stream_chat passes to crawler_manager.create_job
ChatKwargs ==
    {"keywords", "seeds", "max_depth", "max_pages", "allow_external", "requested_by",
     "user_context", "ollama_assisted", "ollama_query"}

\* what get_job can return: None, or the job with its status, its page count
\* and the number of its results
JobViews ==
    {NoJob} \cup [found : {TRUE}, status : {"queued", "running", "completed", "failed"},
                  pages_crawled : {0, 1}, results : {0, 1}]

\* a chunk stream_chat yields
Line(line) == [line |-> line, status |-> "none", pages_crawled |-> 0]

\* "Crawl job {job.id} Status: {job_status}. Seiten gecrawlt: {pages_crawled}."
StatusLine(job) ==
    [line |-> "status", status |-> job.status, pages_crawled |-> job.pages_crawled]

\* stream_chat up to its first await in a branch. `manager` is the
\* crawler_manager the module holds: the real CrawlerManager, or the one of
\* tests/test_chat.py whose create_job, get_job and get_result are mocks
StreamChat(manager, uncertain, phrase, urls) ==
    /\ chat.pc = "idle"
    /\ chat' = [chat EXCEPT
           !.manager = manager, !.uncertain = uncertain, !.phrase = phrase, !.urls = urls,
           !.emitted =
               IF uncertain THEN <<Line("searching"), Line("web_answer")>>
               ELSE IF phrase
                    THEN IF urls THEN <<Line("okay")>>
                         ELSE <<Line("okay"), Line("no_links")>>
                    ELSE <<Line("initial_response")>>,
           !.pc = IF ~uncertain /\ phrase /\ urls THEN "create" ELSE "done"]
    /\ UNCHANGED <<storeVars, histVars, crawlVars, crawlHistVars, ready_call, flushVars,
                   gate_calls, user, http, spool>>

\* await crawler_manager.create_job(...): the real create_job does not take
\* the keyword arguments of the call, the TypeError is caught by the
\* `except Exception` of the tool; a mock takes any argument and returns a
\* queued job
ChatCreateJob ==
    /\ chat.pc = "create"
    /\ chat' =
           IF chat.manager = "real" /\ ~Binds(ChatKwargs)
           THEN [chat EXCEPT !.emitted = Append(@, Line("tool_error")), !.pc = "done"]
           ELSE [chat EXCEPT !.created = @ + 1, !.job_status = "queued",
                             !.emitted = Append(@, Line("started")), !.pc = "poll"]
    /\ UNCHANGED <<storeVars, histVars, crawlVars, crawlHistVars, ready_call, flushVars,
                   gate_calls, user, http, spool>>

\* one round of the polling loop: sleep, get_job, one line
ChatPoll(view) ==
    /\ chat.pc = "poll"
    /\ chat.job_status \in {"queued", "running"}
    /\ Len(chat.observed) < MaxPolls
    /\ chat' =
           IF view.found
           THEN [chat EXCEPT !.updated_job = view, !.job_status = view.status,
                             !.observed = Append(@, view),
                             !.emitted = Append(@, StatusLine(view)),
                             !.pc = IF view.status \in {"queued", "running"}
                                    THEN "poll" ELSE "finish"]
           ELSE [chat EXCEPT !.updated_job = view, !.observed = Append(@, view),
                             !.emitted = Append(@, Line("not_found")), !.pc = "finish"]
    /\ UNCHANGED <<storeVars, histVars, crawlVars, crawlHistVars, ready_call, flushVars,
                   gate_calls, user, http, spool>>

\* after the loop: the results are fetched and the augmented answer is
\* streamed (an exception of the model provider is caught by the `except
\* Exception` of the tool), or the failure / the empty crawl is reported
ChatFinish(stream) ==
    /\ chat.pc = "finish"
    /\ chat' =
           IF chat.job_status = "completed" /\ chat.updated_job.found
              /\ chat.updated_job.results > 0
           THEN [chat EXCEPT
                    !.fetched = chat.updated_job.results,
                    !.emitted = @ \o <<Line("analysing"),
                                       Line(IF stream = "ok" THEN "answer" ELSE "tool_error")>>,
                    !.pc = "done"]
           ELSE IF chat.job_status = "failed"
                THEN [chat EXCEPT !.emitted = Append(@, Line("failed")), !.pc = "done"]
                ELSE [chat EXCEPT
                         !.emitted = Append(@,
                             IF chat.updated_job.found /\ chat.updated_job.pages_crawled > 0
                             THEN Line("no_results") ELSE Line("no_pages")),
                         !.pc = "done"]
    /\ UNCHANGED <<storeVars, histVars, crawlVars, crawlHistVars, ready_call, flushVars,
                   gate_calls, user, http, spool>>

ChatInit == EmptyStore({1000}) /\ IdleManager /\ AuxIdle

ChatNext ==
    \/ \E manager \in {"real", "mock"}, uncertain \in BOOLEAN, phrase \in BOOLEAN,
          urls \in BOOLEAN : StreamChat(manager, uncertain, phrase, urls)
    \/ ChatCreateJob
    \/ \E view \in JobViews : ChatPoll(view)
    \/ \E stream \in {"ok", "raises"} : ChatFinish(stream)

ChatSpec == ChatInit /\ [][ChatNext]_vars

---------------------------------------------------------------------------
(* Properties of the store *)

RECURSIVE ResidentBytes(_)
\* sum of the size_bytes fields of the records of a store sequence
ResidentBytes(recs) ==
    IF recs = <<>> THEN 0 ELSE Head(recs).rec.size_bytes + ResidentBytes(Tail(recs))

\* the resident records with content hash h
ResidentWithHash(h) ==
    {records[i].rec : i \in {j \in 1..Len(records) : records[j].rec.content_hash = h}}

\* only add calls were made so far
OnlyAdds == n_calls = next_id

\* C1: with max_memory_bytes > 0, after any sequence of add calls the sum of
\* size_bytes of the resident records is at most max_memory_bytes.
C1_MemoryBound ==
    (max_memory_bytes > 0 /\ OnlyAdds) => ResidentBytes(records) <= max_memory_bytes

\* the last two calls were add(r1), which inserted r1 as a new record, and
\* add(r2) with the same non-empty content hash
TwoAddsSameHash ==
    /\ prev_call.op = "add" /\ prev_call.path = "insert"
    /\ last_call.op = "add"
    /\ last_call.arg.content_hash # 0
    /\ last_call.arg.content_hash = prev_call.arg.content_hash

\* C2 (as claimed): after add(r1), add(r2) with the same non-empty hash exactly
\* one record with that hash is resident, the one with the higher score, and
\* only on equal scores the one with the newer updated_at.
C2_HigherScoreWins ==
    TwoAddsSameHash =>
        LET r1 == prev_call.arg
            r2 == last_call.arg
            kept == ResidentWithHash(r2.content_hash)
        IN  /\ Cardinality(kept) = 1
            /\ ScoreGT(r1.score, r2.score) => kept = {r1}
            /\ ScoreGT(r2.score, r1.score) => kept = {r2}
            /\ (~ScoreGT(r1.score, r2.score) /\ ~ScoreGT(r2.score, r1.score)) =>
                   /\ r2.updated_at > r1.updated_at => kept = {r2}
                   /\ r1.updated_at > r2.updated_at => kept = {r1}

\* C2 (amended): after add(r1), add(r2) with the same non-empty hash exactly
\* one record with that hash is resident: r2 when r2 has a strictly higher
\* score or a strictly newer updated_at than r1 (whatever the other of the two
\* says), and r1 otherwise.
C2_HigherScoreOrNewerWins ==
    TwoAddsSameHash =>
        LET r1 == prev_call.arg
            r2 == last_call.arg
            kept == ResidentWithHash(r2.content_hash)
        IN  /\ Cardinality(kept) = 1
            /\ (r2.score.num * r1.score.den > r1.score.num * r2.score.den
                    \/ r2.updated_at > r1.updated_at) => kept = {r2}
            /\ (r2.score.num * r1.score.den <= r1.score.num * r2.score.den
                    /\ r2.updated_at <= r1.updated_at) => kept = {r1}

\* C2 witness: a newer duplicate with a lower score has replaced the record
\* it duplicates.
C2_Witness ==
    /\ TwoAddsSameHash
    /\ ScoreGT(prev_call.arg.score, last_call.arg.score)
    /\ last_call.arg.updated_at > prev_call.arg.updated_at
    /\ ResidentWithHash(last_call.arg.content_hash) = {last_call.arg}

RECURSIVE AccountedPrefix(_, _, _)
\* the sizes _sizes holds for the first k entries of recs
AccountedPrefix(recs, sz, k) ==
    IF k = 0 THEN 0 ELSE SizeGet(sz, recs[k].key) + AccountedPrefix(recs, sz, k - 1)

---------------------------------------------------------------------------
(* Properties of the crawl *)

JobIds == DOMAIN jobs

\* the URLs of the page fetch attempts of job j, in order
FetchedUrls(j) == [i \in 1..Len(fetch_log[j]) |-> fetch_log[j][i].url]

\* C3: for every job, in every state of _process_job, pages_crawled <= max_pages.
C3_PageBudget == \A j \in JobIds : jobs[j].pages_crawled <= jobs[j].max_pages

\* C3 witness: a job has used up its budget of two pages while URLs are still
\* queued.
C3_Witness ==
    \E j \in JobIds :
        /\ jobs[j].max_pages = 2 /\ jobs[j].pages_crawled = 2
        /\ worker = [state |-> "processing", job |-> j]
        /\ queue # <<>>

\* C4: within one job no URL is fetched more than once, whatever the link
\* graph and the seeds.
C4_FetchedOnce ==
    \A j \in JobIds :
        \A m, n \in 1..Len(fetch_log[j]) : m # n => fetch_log[j][m].url # fetch_log[j][n].url

\* C4 witness: a URL that was already fetched is next in the deque again.
C4_Witness ==
    /\ worker.state = "processing"
    /\ queue # <<>>
    /\ Head(queue).url \in SeqRange(FetchedUrls(worker.job))
    /\ jobs[worker.job].pages_crawled < jobs[worker.job].max_pages

\* the score of a result is at or above the threshold of its job
AboveThreshold(r) ==
    /\ r.job_id \in JobIds
    /\ r.score.num * 100 >= jobs[r.job_id].relevance_threshold * r.score.den

\* the score of the page of an attempt of job j
AttemptScore(j, a) ==
    IF jobs[j].keywords = <<>> THEN [num |-> 0, den |-> 1]
    ELSE [num |-> Cardinality({i \in 1..Len(jobs[j].keywords) :
                                   jobs[j].keywords[i] \in PageKeywords(a.url)}),
          den |-> Len(jobs[j].keywords)]

\* C5: every result a job stores, appends to job.results or buffers had a
\* score at or above the job's threshold when it was accepted, and no page
\* scoring below it is stored, appended or buffered.
C5_AcceptedAboveThreshold ==
    /\ \A i \in 1..Len(train_buffer) : AboveThreshold(train_buffer[i])
    /\ \A i \in 1..Len(records) : AboveThreshold(records[i].rec)
    /\ \A j \in JobIds : \A i \in 1..Len(jobs[j].results) :
           /\ jobs[j].results[i] \in DOMAIN built
           /\ built[jobs[j].results[i]].job_id = j
           /\ AboveThreshold(built[jobs[j].results[i]])
    /\ \A j \in JobIds : \A n \in 1..Len(fetch_log[j]) :
           LET a == fetch_log[j][n]
               sc == AttemptScore(j, a)
           IN  sc.num * 100 < jobs[j].relevance_threshold * sc.den =>
                   /\ \A i \in 1..Len(train_buffer) :
                          ~(train_buffer[i].job_id = j /\ train_buffer[i].url = a.url)
                   /\ \A i \in 1..Len(records) :
                          ~(records[i].rec.job_id = j /\ records[i].rec.url = a.url)
                   /\ \A id \in DOMAIN built :
                          built[id].job_id = j => built[id].url # a.url

\* C5 witness: a job has counted a page it rejected and a page it accepted.
C5_Witness ==
    \E j \in JobIds :
        /\ jobs[j].pages_crawled = 2
        /\ Len(jobs[j].results) = 1
        /\ Len(train_buffer) = 1

\* C6: a job's status changes only along queued -> running -> completed or
\* running -> failed, and a new job starts queued.
C6_StatusTransitions ==
    [][/\ \A j \in JobIds :
            jobs'[j].status # jobs[j].status =>
                <<jobs[j].status, jobs'[j].status>> \in
                    {<<"queued", "running">>, <<"running", "completed">>, <<"running", "failed">>}
       /\ JobIds \subseteq DOMAIN jobs'
       /\ \A j \in DOMAIN jobs' \ JobIds : jobs'[j].status = "queued"
      ]_vars

\* C6 witness: one job is completed while a later one is running.
C6_Witness ==
    \E i, j \in JobIds : jobs[i].status = "completed" /\ jobs[j].status = "running"

\* C7: when an exception escapes the processing of a job, the job is failed
\* with the error text, and the worker goes on to serve queued jobs.
C7_FaultFailsJob ==
    \A j \in JobIds :
        fault[j] # "none" =>
            /\ jobs[j].status = "failed"
            /\ jobs[j].error # "none"
            /\ worker.state # "dead"

\* the attempts of job j in which fetching or processing the page raised
PageErrors(j) ==
    {n \in 1..Len(fetch_log[j]) :
        \/ fetch_log[j][n].outcome = "error"
        \/ /\ fetch_log[j][n].outcome = "html_bad_date"
           /\ LET sc == AttemptScore(j, fetch_log[j][n])
              IN  sc.num * 100 >= jobs[j].relevance_threshold * sc.den
        \/ /\ fetch_log[j][n].outcome = "html_bad_href"
           /\ fetch_log[j][n].depth < jobs[j].max_depth}

\* C8: an error confined to one page only skips that page: the job goes on
\* with the remaining URLs (it is still being processed) or has completed.
C8_PageErrorSkipsPage ==
    \A j \in JobIds :
        PageErrors(j) # {} =>
            \/ jobs[j].status = "completed"
            \/ jobs[j].status = "running" /\ worker = [state |-> "processing", job |-> j]

\* a job with a single seed, max_depth = 0 and max_pages = 1
OnePageJob(j) ==
    Len(jobs[j].seeds) = 1 /\ jobs[j].max_depth = 0 /\ jobs[j].max_pages = 1

---------------------------------------------------------------------------
(* Properties of the result interface *)

\* the resident records
Resident == {records[i].rec : i \in 1..Len(records)}

\* C11: for every resident record, after any sequence of add, update,
\* add_feedback and mark_posted, size_bytes equals the serialized byte length
\* of the record as it is stored now, which is the value the store accounts
\* for it (either of the two readings is accepted here).
C11_SizeBytesCurrent ==
    \A i \in 1..Len(records) :
        \/ records[i].rec.size_bytes = SerializedSize(records[i].rec)
        \/ records[i].rec.size_bytes = SizeGet(sizes, records[i].key)

\* the resident results the claim says are ready at the given cutoff
Eligible(cutoff) ==
    {r \in Resident :
        /\ r.status # "published"
        /\ r.rating_count >= 2
        /\ r.rating_average.num >= 4 * r.rating_average.den
        /\ r.confirmations >= 1
        /\ r.created_at <= cutoff}

\* how many of the store's keys hold result r / how often r is in the list
Held(r) == Cardinality({i \in 1..Len(records) : records[i].rec = r})
Returned(out, r) == Cardinality({k \in 1..Len(out) : out[k] = r})

\* C12: ready_for_publication(limit, min_age_minutes), for a limit >= 0,
\* returns exactly the resident results that are unpublished, have
\* rating_count >= 2, rating_average >= 4.0, confirmations >= 1 and were
\* created at least min_age_minutes ago (one entry per key the store holds
\* such a result under), ordered by score descending and truncated to at most
\* limit entries (the ones left out score no higher than any returned one); a
\* result with rating_count = 1 is never returned.
C12_ReadyForPublication ==
    ready_call.made =>
        LET out == ready_call.returned
            ready == Eligible(ready_call.now - ready_call.min_age_minutes)
            entries == {i \in 1..Len(records) : records[i].rec \in ready}
        IN  /\ \A k \in 1..Len(out) : out[k] \in ready
            /\ \A j, k \in 1..Len(out) : j < k =>
                   out[j].score.num * out[k].score.den >= out[k].score.num * out[j].score.den
            /\ Len(out) = Min(ready_call.limit, Cardinality(entries))
            /\ \A r \in ready :
                   /\ Returned(out, r) <= Held(r)
                   /\ Returned(out, r) < Held(r) =>
                          \A k \in 1..Len(out) :
                              out[k].score.num * r.score.den >= r.score.num * out[k].score.den
            /\ \A k \in 1..Len(out) : out[k].rating_count # 1

\* C12 witness: a query with room for two results has returned the one ready
\* result and left out a resident result with a single, confirmed rating of
\* 5.0.
C12_Witness ==
    /\ ready_call.made
    /\ ready_call.limit = 2
    /\ Len(ready_call.returned) = 1
    /\ \E r \in Resident :
           /\ r.rating_count = 1 /\ r.rating_average = [num |-> 5, den |-> 1]
           /\ r.confirmations = 1 /\ r.status = "pending"
           /\ r.created_at <= ready_call.now - ready_call.min_age_minutes

---------------------------------------------------------------------------
(* Properties of the shutdown and of the flush *)

\* the ids of the results written to some shard
Written == UNION {SeqRange(shards[name]) : name \in DOMAIN shards}

\* C13: graceful shutdown loses no buffered result: when the shutdown
\* sequence of the application (stop(), then shutdown_flush()) is over, and
\* the file system failed no flush, the training buffer is empty and every
\* result a job accepted has been written to a shard.
C13_ShutdownFlushes ==
    (/\ app \in {"down", "flush_raised", "aborted"}
     /\ \A n \in 1..Len(flush_log) : flush_log[n].io = "ok") =>
        /\ train_buffer = <<>>
        /\ DOMAIN built \subseteq Written

\* C14: when writing the shard fails during a flush of flush_hourly, the
\* failure is handled, the buffered records stay buffered (or are in the
\* shard), and the flush task lives on to flush again at its next interval.
C14_FailedFlushRetried ==
    \A n \in 1..Len(flush_log) :
        (flush_log[n].by = "flush_hourly" /\ flush_log[n].io # "ok") =>
            /\ flusher # "dead"
            /\ SeqRange(flush_log[n].buffered) \subseteq
                   Written \cup SeqRange(BufferedIds(train_buffer))

---------------------------------------------------------------------------
(* Properties of the politeness gate *)

\* the calls of _can_fetch, by number, that concern origin o
CallsOn(o) == {n \in 1..Len(gate_calls) : Origin(gate_calls[n].url) = o}

\* C15: for each origin a manager requests robots.txt at most once; every
\* later _can_fetch call for the origin is answered from the cached policy
\* without a request, also when the first request failed or was not a 200:
\* the origin is then unrestricted and _can_fetch returns true.
C15_RobotsRequestedOnce ==
    \A o \in {Origin(u) : u \in GateUrls} :
        /\ Cardinality({n \in CallsOn(o) : gate_calls[n].requested}) <= 1
        /\ \A m, n \in CallsOn(o) :
               m < n => /\ ~gate_calls[n].requested
                        /\ ~gate_calls[m].robots.parsed => gate_calls[n].answer

---------------------------------------------------------------------------
(* Properties of the user crawler *)

\* C16: every job submitted through crawl_url while the user crawler is
\* started is eventually taken from the dedicated queue and crawled: the call
\* has a job, and that job's status eventually reaches completed or failed.
C16_UserJobsCrawled ==
    \A n \in 1..MaxUserCalls :
        (Len(user.calls) >= n /\ user.calls[n].started) ~>
            (/\ Len(user.calls) >= n
             /\ user.calls[n].job \in DOMAIN jobs
             /\ jobs[user.calls[n].job].status \in {"completed", "failed"})

---------------------------------------------------------------------------
(* Properties of the HTTP client *)

\* the call is over: it returned or raised
HttpDone == http.state \in {"returned", "raised"}

\* the attempts that raised TimeoutException or NetworkError (or a subclass)
TransportFailures ==
    {n \in 1..Len(http.attempts) :
        /\ http.attempts[n].kind = "raise"
        /\ http.attempts[n].what \in {"TimeoutException", "NetworkError", "ConnectError"}}

\* the attempts that returned one of the status codes 429, 500, 502, 503, 504
RetryableStatuses ==
    {n \in 1..Len(http.attempts) :
        /\ http.attempts[n].kind = "response"
        /\ http.attempts[n].status \in {429, 500, 502, 503, 504}}

\* the attempts that failed in a way that is not retryable: another status of
\* 400 or above, or an unexpected exception
OtherFailures ==
    {n \in 1..Len(http.attempts) :
        \/ /\ http.attempts[n].kind = "response"
           /\ http.attempts[n].status >= 400
           /\ http.attempts[n].status \notin {429, 500, 502, 503, 504}
        \/ /\ http.attempts[n].kind = "raise"
           /\ http.attempts[n].what = "ValueError"}

\* C17: get/post: when every attempt raises httpx.TimeoutException or
\* httpx.NetworkError, the request is attempted exactly 3 times (never more),
\* and then the exception of the last attempt is re-raised to the caller.
C17_TransportErrorsRetried ==
    TransportFailures = 1..Len(http.attempts) =>
        /\ Len(http.attempts) <= 3
        /\ http.state = "calling" => Len(http.attempts) < 3
        /\ HttpDone => /\ Len(http.attempts) = 3
                       /\ http.state = "raised"
                       /\ http.result = http.attempts[3]

\* C17 witness: a post has raised NetworkError after three attempts that
\* raised a timeout, a connect error and a network error.
C17_Witness ==
    /\ http.method = "post" /\ http.state = "raised"
    /\ http.attempts = <<[kind |-> "raise", status |-> 0, what |-> "TimeoutException"],
                         [kind |-> "raise", status |-> 0, what |-> "ConnectError"],
                         [kind |-> "raise", status |-> 0, what |-> "NetworkError"]>>
    /\ http.result.what = "NetworkError"

\* C18: get: a response with a retryable status code (429, 500, 502, 503,
\* 504) triggers a retry: the call does not end on such a response before
\* the third attempt; if all attempts return such a status there are exactly
\* 3 attempts and httpx.HTTPStatusError is raised; after 503 responses a
\* later 200 (within the 3) is returned.
C18_StatusRetried ==
    /\ (http.method = "get" /\ HttpDone /\ Len(http.attempts) \in RetryableStatuses)
           => (Len(http.attempts) = 3)
    /\ (http.method = "get" /\ HttpDone /\ http.attempts # <<>>
             /\ RetryableStatuses = 1..Len(http.attempts))
           => (/\ Len(http.attempts) = 3
               /\ http.state = "raised"
               /\ http.result.what = "HTTPStatusError")
    /\ (http.method = "get" /\ HttpDone /\ http.attempts # <<>>
             /\ http.attempts[Len(http.attempts)].status = 200)
           => (/\ http.state = "returned"
               /\ http.result.kind = "response"
               /\ http.result.status = 200)

\* C19: get: a failure that is not retryable (a status such as 404, an
\* unexpected exception such as ValueError) is raised to the caller by the
\* attempt it happens in, without any retry: no attempt follows it, and when
\* it happens in the first attempt the call ends after exactly one attempt.
C19_OtherFailuresRaised ==
    http.method = "get" =>
        \A n \in OtherFailures :
            /\ n = Len(http.attempts)
            /\ http.state = "raised"
            /\ http.result = AttemptBody(http.attempts[n])
            /\ http.result.what =
                   IF http.attempts[n].kind = "raise" THEN http.attempts[n].what
                   ELSE "HTTPStatusError"
            /\ n = 1 => Len(http.attempts) = 1

\* C19 witness: a get that met a 404 in its first attempt has raised
\* HTTPStatusError after that one attempt.
C19_Witness ==
    /\ http.method = "get" /\ http.state = "raised"
    /\ http.attempts = <<[kind |-> "response", status |-> 404, what |-> "Response"]>>
    /\ http.result.what = "HTTPStatusError"

\* the chunks stream_chat has yielded
Emitted == {chat.emitted[n] : n \in 1..Len(chat.emitted)}

\* the status lines stream_chat has emitted, in order
StatusLines == SelectSeq(chat.emitted, LAMBDA l : l.line = "status")

\* the statuses get_job has returned, in order
ObservedStatuses == SelectSeq(chat.observed, LAMBDA job : job.found)

\* C20: stream_chat, on a query with a crawler phrase and a URL and an initial
\* response without uncertainty: when it has ended it has created exactly one
\* crawl job; it has emitted one status line per job that get_job returned,
\* in the order observed; it has polled until a status other than queued and
\* running (as long as get_job found the job); and after a final status
\* completed with a result it has fetched the results and emitted the
\* augmented answer (when the model provider delivered one), never the
\* initial response.
C20_CrawlerTool ==
    (chat.pc = "done" /\ ~chat.uncertain /\ chat.phrase /\ chat.urls) =>
        /\ chat.created = 1
        /\ Len(StatusLines) = Len(ObservedStatuses)
        /\ \A n \in 1..Len(StatusLines) :
               /\ StatusLines[n].status = ObservedStatuses[n].status
               /\ StatusLines[n].pages_crawled = ObservedStatuses[n].pages_crawled
        /\ (ObservedStatuses = chat.observed)
               => (chat.job_status \notin {"queued", "running"})
        /\ (chat.job_status = "completed" /\ chat.updated_job.results > 0)
               => /\ chat.fetched = chat.updated_job.results
                  /\ Line("analysing") \in Emitted
                  /\ (Line("tool_error") \notin Emitted)
                         => (chat.emitted[Len(chat.emitted)] = Line("answer"))
        /\ Line("initial_response") \notin Emitted

---------------------------------------------------------------------------
(* Properties of the store: duplicates, addressability, accounting *)

\* the resident records that share the (non-empty) content hash of result
Duplicated(result) ==
    IF result.content_hash = 0 THEN {} ELSE ResidentWithHash(result.content_hash)

\* result has a strictly higher score or a strictly newer updated_at than r
StrictlyBetter(result, r) ==
    \/ result.score.num * r.score.den > r.score.num * result.score.den
    \/ result.updated_at > r.updated_at

\* C21: add(result) while a resident record has the content hash of result:
\* the store changes only if result has a strictly higher score or a strictly
\* newer updated_at than a resident record of that hash; if it is strictly
\* better than none of them the records, their order, the recorded sizes and
\* the memory usage stay as they were; in either case no key leaves the store
\* and every record of another hash stays where it was.
C21_DuplicateAdd ==
    [][(n_calls' = n_calls + 1 /\ last_call'.op = "add"
            /\ Duplicated(last_call'.arg) # {}) =>
        LET result == last_call'.arg
        IN  /\ (records' # records) =>
                   \E r \in Duplicated(result) : StrictlyBetter(result, r)
            /\ (\A r \in Duplicated(result) : ~StrictlyBetter(result, r)) =>
                   /\ records' = records
                   /\ sizes' = sizes
                   /\ memory_usage' = memory_usage
            /\ last_call'.evicted = {}
            /\ Len(records') >= Len(records)
            /\ \A i \in 1..Len(records) :
                   \/ records'[i] = records[i]
                   \/ /\ records'[i].key = records[i].key
                      /\ records[i].rec.content_hash = result.content_hash
                      /\ records'[i].rec = result
      ]_vars

\* C21 witness: a duplicate that is not better was discarded while a record
\* of another hash is resident next to the record it duplicates.
C21_Witness ==
    /\ last_call.op = "add" /\ last_call.path = "discard"
    /\ Duplicated(last_call.arg) # {}
    /\ \E i \in 1..Len(records) : records[i].rec.content_hash # last_call.arg.content_hash

---------------------------------------------------------------------------
(* Properties of the cooperative shutdown *)

\* the jobs that go from queued to running in a step
StartedInStep == {j \in 1..Len(jobs) : jobs[j].status = "queued" /\ jobs'[j].status = "running"}

\* C22: once stop() has set the stop signal the worker starts no new job: no
\* job goes from queued to running while the signal is set; the worker
\* finishes at most the job in progress and exits, and stop() returns.
C22_NoJobStartedAfterStop ==
    [][(stop_event /\ stop_event') =>
           /\ StartedInStep = {}
           /\ app' # "aborted"
      ]_vars

---------------------------------------------------------------------------
(* Properties of the traversal *)

\* the depths of a sequence of fetch attempts or deque entries never decrease
NonDecreasing(q) == \A i \in 1..Len(q) : \A k \in i..Len(q) : q[i].depth <= q[k].depth

\* the deque of the job in progress (empty when no job is in progress)
Deque == IF worker.state = "processing" THEN queue ELSE <<>>

\* C23: breadth-first order: within a job the depths of the successively
\* fetched pages never decrease and what waits in the deque is at least as
\* deep as what was fetched; a seed is fetched at depth 0; an entry of depth
\* d+1 is in the deque only for a link of a fetched HTML page of depth d with
\* d < max_depth; no page is fetched at a depth greater than max_depth.
C23_BreadthFirst ==
    \A j \in 1..Len(jobs) :
        LET log == fetch_log[j]
            q == IF worker.job = j THEN Deque ELSE <<>>
        IN  /\ NonDecreasing(log \o [i \in 1..Len(q) |->
                                        [url |-> q[i].url, depth |-> q[i].depth,
                                         outcome |-> "queued"]])
            /\ \A i \in 1..Len(log) :
                   /\ log[i].depth >= 0 /\ log[i].depth <= jobs[j].max_depth
                   /\ log[i].url \in SeqRange(jobs[j].seeds) => log[i].depth = 0
            /\ \A i \in 1..Len(q) :
                   IF q[i].parent = "none"
                   THEN q[i].depth = 0 /\ q[i].url \in SeqRange(jobs[j].seeds)
                   ELSE \E k \in 1..Len(log) :
                            /\ log[k].url = q[i].parent
                            /\ IsHtml(log[k].outcome)
                            /\ q[i].depth = log[k].depth + 1
                            /\ log[k].depth < jobs[j].max_depth
                            /\ q[i].url \in SeqRange(Links(log[k].url))

\* C23 witness: a job has fetched a seed at depth 0 and then a page it links
\* to at depth 1, and a link of depth 2 waits in the deque.
C23_Witness ==
    /\ worker.state = "processing"
    /\ Len(fetch_log[worker.job]) = 2
    /\ fetch_log[worker.job][1].depth = 0
    /\ fetch_log[worker.job][2].depth = 1
    /\ \E i \in 1..Len(queue) : queue[i].depth = 2

\* C24: same-domain policy: allowed_domains of a job is the set of hosts of
\* its seeds, and for a job with allow_external = false every URL the job
\* has fetched, has visited or holds in its deque is on one of these hosts.
C24_SameDomain ==
    \A j \in 1..Len(jobs) :
        /\ jobs[j].allowed_domains = {Netloc(jobs[j].seeds[i]) : i \in 1..Len(jobs[j].seeds)}
        /\ ~jobs[j].allow_external =>
               /\ \A i \in 1..Len(fetch_log[j]) :
                      Netloc(fetch_log[j][i].url) \in jobs[j].allowed_domains
               /\ (worker.state = "processing" /\ worker.job = j) =>
                      /\ \A i \in 1..Len(queue) : Netloc(queue[i].url) \in jobs[j].allowed_domains
                      /\ \A u \in visited : Netloc(u) \in jobs[j].allowed_domains

\* C24 witness: a job without allow_external has fetched page "a", which
\* links to another host, at a depth below max_depth, and its deque holds
\* the links of the page.
C24_Witness ==
    /\ worker.state = "processing"
    /\ ~jobs[worker.job].allow_external
    /\ jobs[worker.job].max_depth > 0
    /\ fetch_log[worker.job] = <<[url |-> "a", depth |-> 0, outcome |-> "html"]>>
    /\ \E i \in 1..Len(queue) : queue[i].parent = "a"

---------------------------------------------------------------------------
(* Properties of the training directory *)

\* the entries index.json holds for a shard
IndexEntries(name) ==
    {i \in 1..Len(spool.index_file) : spool.index_file[i].name = name}

\* C25: after any sequence of successful flushes of the two managers into
\* the training directory (and no compaction), every shard file that
\* received records has exactly one entry in the persisted index, and the
\* entry holds the number of records written to the file.
C25_IndexConsistent ==
    (/\ spool.passes = <<>>
     /\ \A n \in 1..Len(flush_log) : flush_log[n].io = "ok") =>
        \A name \in DOMAIN shards :
            shards[name] # <<>> =>
                /\ Cardinality(IndexEntries(name)) = 1
                /\ \A i \in IndexEntries(name) :
                       spool.index_file[i].records = Len(shards[name])

\* the ids of the results the flushes have written to a shard file so far
EverWritten ==
    UNION {SeqRange(IF flush_log[n].io \in {"ok", "index_error"} THEN flush_log[n].buffered
                    ELSE IF flush_log[n].io = "write_error"
                         THEN SubSeq(flush_log[n].buffered, 1, 1)
                         ELSE <<>>) : n \in 1..Len(flush_log)}

\* the ids of the results held by the gzip archives
Archived == UNION {SeqRange(spool.archive[name]) : name \in DOMAIN spool.archive}

\* C26: archival never loses shard history: after any interleaving of flushes
\* and compaction passes, with any retention, every record that was written
\* to a shard is in an uncompressed shard file or in a gzip archive.
C26_ShardHistoryKept == EverWritten \subseteq (Written \cup Archived)

---------------------------------------------------------------------------
(* Properties of the worker: liveness and budgets *)

\* C27: every job created on a started manager is eventually dequeued and
\* reaches status completed or failed, the link graph being finite and every
\* fetch returning.
C27_JobsFinish ==
    \A j \in 1..MaxJobs :
        (j \in DOMAIN jobs) ~> (j \in DOMAIN jobs /\ jobs[j].status \in {"completed", "failed"})

\* the attempts of job j that returned an HTML page with a status below 400
HtmlAttempts(j) == {n \in 1..Len(fetch_log[j]) : IsHtml(fetch_log[j][n].outcome)}

\* C28 (as claimed): a job makes at most max_pages page fetch attempts in total, the
\* attempts that raise, return a status >= 400 or return non-HTML content
\* included.
C28_FetchBudget == \A j \in JobIds : Len(fetch_log[j]) <= jobs[j].max_pages

\* C28 (amended): a job makes at most max_pages fetch attempts that return
\* an HTML page with a status below 400, and only those are counted in
\* pages_crawled; attempts that raise, return a status >= 400 or return
\* non-HTML content are not counted against the budget.
C28_HtmlFetchBudget ==
    \A j \in JobIds :
        /\ Cardinality(HtmlAttempts(j)) <= jobs[j].max_pages
        /\ jobs[j].pages_crawled <= Cardinality(HtmlAttempts(j))

\* C28 witness: a job with max_pages = 1 has made a fetch attempt that
\* failed and the one attempt that used up its budget.
C28_Witness ==
    \E j \in JobIds :
        /\ jobs[j].max_pages = 1 /\ jobs[j].pages_crawled = 1
        /\ Len(fetch_log[j]) = 2
        /\ Cardinality(HtmlAttempts(j)) = 1

---------------------------------------------------------------------------
(* Properties of the store under the crawl *)

\* C29: every resident record is stored under its own id, and when a job has
\* appended a result id to job.results, get(id) returns that result, also
\* when the result was added as a duplicate of a resident content hash
\* (no eviction can have removed it yet: add makes room before it stores).
C29_ResultAddressable ==
    [][\A j \in JobIds :
           jobs'[j].results # jobs[j].results =>
               LET id == jobs'[j].results[Len(jobs'[j].results)]
               IN  /\ StoreGet([records |-> records'], id).id = id
                   /\ \A i \in 1..Len(records') : records'[i].key = records'[i].rec.id
      ]_vars

RECURSIVE RecordedBytes(_, _)
\* sum of the sizes _sizes records for the keys of a store sequence
RecordedBytes(recs, sz) ==
    IF recs = <<>> THEN 0 ELSE SizeGet(sz, Head(recs).key) + RecordedBytes(Tail(recs), sz)

\* C30: after any sequence of add, update and eviction, _memory_usage is the
\* sum of the recorded sizes of exactly the resident records, _sizes and
\* _records have the same keys, and _memory_usage is never negative and is 0
\* when no record is resident.
C30_StoreAccounting ==
    /\ DOMAIN sizes = Keys(records)
    /\ memory_usage = RecordedBytes(records, sizes)
    /\ memory_usage >= 0
    /\ records = <<>> => memory_usage = 0

=============================================================================
